---- MODULE Spec2Model ----
(***************************************************************************)
(* A model of the network-migration handlers of vm-network-migration.      *)
(*                                                                         *)
(* The program is a set of handler objects, each driving one remote        *)
(* resource through a sequence of create/delete calls.  The model has one  *)
(* component per handler:                                                  *)
(*   MIG  ManagedInstanceGroupMigration (network_migration, rollback)      *)
(*   UIG  InstanceGroupNetworkMigration.migrate_unmanaged_instance_group   *)
(*   FR   ForwardingRuleMigration (the three forwarding-rule kinds)        *)
(*   TP   the target-pool migration                                        *)
(*   OW   wait_for_zone_operation and wait_for_region_operation            *)
(*   SN   SubnetNetwork and the validation of the target in main2          *)
(*   IGH  InstanceGroupHelper.build_instance_group                         *)
(*   PIP  preserve_ip_addresses_handler                                    *)
(*   MEM  add_an_instance, remove_an_instance, add_all_instances           *)
(*   INS  Instance.get_new_instance_configs                                *)
(*   M2   main2, the migration of one instance                             *)
(*   RES  the calls a resumed migration repeats                            *)
(* A component whose program counter is "off" takes no step, so each       *)
(* component is checked under its own specification (SpecMIG, ...), and    *)
(* Spec is their union.                                                    *)
(*                                                                         *)
(* The remote API is modelled by what the handlers observe of it: a        *)
(* mutating call either is confirmed complete (its effect is applied) or   *)
(* raises (the waiter reported an error, or the request was refused).  A   *)
(* refused delete leaves the resource in place; a create that raises may   *)
(* leave the resource half-created, which is the case rollback() probes    *)
(* with get_status().  Reads of an existing resource succeed.              *)
(***************************************************************************)
EXTENDS Integers, Sequences, FiniteSets, TLC

VARIABLES
    \* ---- MIG: the remote side
    remote_group,            \* {} when the group is absent, else {its configs}
    remote_templates,        \* the instance templates that exist
    target_pool_list,        \* the target pools the group serves
    autoscaler,              \* TRUE when an autoscaler serves the group
    \* ---- MIG: the handler object
    mig_pc,                  \* position inside network_migration()/rollback()
    migration_status,        \* MigrationStatus, 0..4
    original_instance_group_configs,
    new_instance_group_configs,
    original_instance_template,   \* {} for None, else {template}
    new_instance_template,        \* {} for None, else {template}
    preserve_external_ip,
    \* ---- MIG: observation of the run (history, read by the properties only)
    mig_op,                  \* the method running or last run
    mig_result,              \* how it ended
    mig_calls,               \* mutating calls issued by the current method call
    mig_entry_status,        \* migration_status when the method was entered
    mig_entry_remote,        \* <<remote_group, remote_templates>> at that time
    mig_invocations,         \* network_migration() calls so far
    mig_warnings,            \* warnings raised by the current method call
    \* ---- UIG: the remote side
    uig_remote_group,        \* {} when the group is absent, else {its configs}
    uig_remote_members,      \* the instances that are members of the group
    uig_instance_subnetwork, \* instance -> its subnetwork, or Deleted
    \* ---- UIG: the handler object
    uig_pc,
    uig_instance_selfLinks,  \* the members listed when the handle was built
    uig_network,             \* {} before generate_network, else {subnetwork link}
    uig_original_configs,
    uig_new_configs,
    uig_next,                \* index of the member the running loop is at
    uig_target_valid,        \* FALSE when the named target network is refused
    \* ---- UIG: observation of the run
    uig_result,
    uig_calls,               \* mutating calls issued, in order
    uig_warnings,
    \* ---- FR: the remote side
    fr_remote,               \* {} when the forwarding rule is absent, else {its configs}
    fr_proxy,                \* the target proxy of a global rule
    fr_target_pool,          \* the target pool of an external rule: its state
    bs_config,               \* backend service -> its configs
    bs_group,                \* backend service -> its instance group ({} or {configs})
    bs_templates,            \* backend service -> the templates of its group
    bs_other_rules,          \* backend service -> other forwarding rules that use it
    \* ---- FR: the handler object
    fr_pc,
    fr_kind,                 \* the class of self.forwarding_rule
    fr_original_configs,
    fr_new_configs,          \* forwarding_rule.new_forwarding_rule_configs
    fr_backends,             \* the selfLinks of the rule's backends, in order
    backends_migration_handlers,
    fr_handler,              \* the local handler of the internal-regional procedure
    fr_next,                 \* index the running loop is at
    \* ---- FR: observation of the run
    fr_op,
    fr_result,
    fr_calls,
    fr_notices,
    fr_invocations,          \* network_migration() calls so far
    bs_migrations,           \* backend service -> migrations run on it
    \* ---- TP: the remote side
    tp_pool,                 \* the target pool's instance list
    tp_referrers,            \* instance -> the items listReferrers returns
    tp_instance_subnetwork,  \* instance -> its subnetwork
    tp_group,                \* the managed group of the members ({} or {configs})
    tp_group_templates,
    tp_group_target_pools,   \* the target pools the managed group serves
    tp_unmanaged_group,      \* the unmanaged group of the members: its configs
    \* ---- TP: the handler object
    tp_pc,
    tp_instance_handlers,    \* the backends migrated as single instances
    tp_group_handlers,       \* the backends migrated as managed groups
    tp_next,
    \* ---- TP: observation of the run
    tp_result,
    tp_calls,
    tp_api_failed,           \* a remote call of this run was refused
    \* ---- OW: an operation and the waiter polling it
    ow_pc,
    ow_scope,                \* "zone" or "region": which waiter runs
    ow_status,               \* the remote operation's status
    ow_error,                \* {} or {the 'error' payload the operation ends with}
    ow_result,
    ow_returned,             \* {} or {the record the waiter returned}
    ow_polls,                \* polls that found the operation unfinished
    ow_printed,
    \* ---- SN: the target network and a SubnetNetwork object
    sn_pc,
    sn_caller,                    \* "SubnetNetwork" or "main2"
    sn_autoCreateSubnetworks,     \* the network's key: "absent", "true" or "false"
    sn_has_subnetworks,           \* the network has the key 'subnetworks'
    sn_subnetworks,               \* the urls that key lists
    sn_region,
    sn_network,                   \* the network's name
    sn_subnetwork,                \* {} for None, else {the subnetwork's name}
    sn_requested,                 \* sn_subnetwork as the caller gave it
    sn_only_check_network_info,
    sn_network_link,
    sn_subnetwork_link,
    sn_result,
    \* ---- IGH: InstanceGroupHelper and the lookups it makes
    igh_pc,
    igh_zone_lookup,         \* what instanceGroups().get answers
    igh_region_lookup,       \* what regionInstanceGroups().get answers
    igh_preserve_instance_ip,
    igh_result,
    igh_handle,              \* {} or {the instance group object returned}
    \* ---- PIP: preserve_ip_addresses_handler
    pip_pc,
    pip_new_network_interface,    \* the interface the handler works on
    pip_original_network_interface,  \* the interface as it was passed in
    pip_preserve_external_ip,
    pip_preserve_internal_ip,
    pip_preserve_alias_ip_ranges,
    pip_external_reservation,     \* how reserving the external address ended
    pip_internal_reservation,     \* how reserving the internal address ended
    pip_printed,                  \* what the handler printed
    pip_result,
    \* ---- MEM: the membership calls of UnmanagedInstanceGroup
    mem_pc,
    mem_op,                  \* add_all_instances or remove_an_instance
    mem_instance_selfLinks,  \* the members listed when the handle was built
    mem_remote_members,      \* the instances that are members of the group
    mem_next,                \* index of the member add_all_instances is at
    mem_result,
    mem_responses,           \* what the API answered to each call, in order
    mem_warnings,            \* the reasons given as warnings
    mem_invocations,
    \* ---- INS: Instance and its get_new_instance_configs
    ins_pc,
    original_instance_configs,     \* the configs captured by __init__
    ins_retrieved_configs,         \* the configs as they were retrieved
    ins_preserve_instance_ip,
    address_object,                \* {} for None, else {the address object}
    ins_new_instance_configs,      \* the copy get_new_instance_configs works on
    ins_result,
    \* ---- M2: main2, the migration of one instance
    m2_pc,
    m2_same_name,            \* new_instance == original_instance
    m2_autoCreateSubnetworks,\* {} when the key is missing, else {its value}
    m2_subnetwork,           \* "None" or the name given
    m2_preserve_ip,          \* one of the three preserve flags is set
    m2_instance_template,    \* the dict retrieve_instance_template returned
    m2_all_disks_info,       \* the list the detach loop runs over
    m2_next,                 \* index of the disk the detach loop is at
    m2_remote,               \* the original instance, its disks, the new one
    m2_calls,                \* the mutating calls issued, in order
    m2_confirmed,            \* how many of them the waiter confirmed DONE
    m2_result,
    \* ---- RES: the calls a resumed migration repeats
    res_pc,
    res_remote_group,        \* the instance group exists
    res_remote_instance,     \* the status of the instance, or "absent"
    res_log                  \* the calls made: state before, answer, result

mig_vars == <<remote_group, remote_templates, target_pool_list, autoscaler,
              mig_pc, migration_status, original_instance_group_configs,
              new_instance_group_configs, original_instance_template,
              new_instance_template, preserve_external_ip, mig_op, mig_result,
              mig_calls, mig_entry_status, mig_entry_remote, mig_invocations,
              mig_warnings>>

uig_vars == <<uig_remote_group, uig_remote_members, uig_instance_subnetwork,
              uig_pc, uig_instance_selfLinks, uig_network, uig_original_configs,
              uig_new_configs, uig_next, uig_target_valid, uig_result,
              uig_calls, uig_warnings>>

fr_vars == <<fr_remote, fr_proxy, fr_target_pool, bs_config, bs_group,
             bs_templates, bs_other_rules, fr_pc, fr_kind, fr_original_configs,
             fr_new_configs, fr_backends, backends_migration_handlers,
             fr_handler, fr_next, fr_op, fr_result, fr_calls, fr_notices,
             fr_invocations, bs_migrations>>

tp_vars == <<tp_pool, tp_referrers, tp_instance_subnetwork, tp_group,
             tp_group_templates, tp_group_target_pools, tp_unmanaged_group, tp_pc,
             tp_instance_handlers, tp_group_handlers, tp_next, tp_result,
             tp_calls, tp_api_failed>>

ow_vars == <<ow_pc, ow_scope, ow_status, ow_error, ow_result, ow_returned,
             ow_polls, ow_printed>>

sn_vars == <<sn_pc, sn_caller, sn_autoCreateSubnetworks, sn_has_subnetworks,
             sn_subnetworks, sn_region, sn_network, sn_subnetwork, sn_requested,
             sn_only_check_network_info, sn_network_link, sn_subnetwork_link,
             sn_result>>

igh_vars == <<igh_pc, igh_zone_lookup, igh_region_lookup,
              igh_preserve_instance_ip, igh_result, igh_handle>>

pip_vars == <<pip_pc, pip_new_network_interface, pip_original_network_interface,
              pip_preserve_external_ip, pip_preserve_internal_ip,
              pip_preserve_alias_ip_ranges, pip_external_reservation,
              pip_internal_reservation, pip_printed, pip_result>>

mem_vars == <<mem_pc, mem_op, mem_instance_selfLinks, mem_remote_members,
              mem_next, mem_result, mem_responses, mem_warnings, mem_invocations>>

ins_vars == <<ins_pc, original_instance_configs, ins_retrieved_configs,
              ins_preserve_instance_ip, address_object, ins_new_instance_configs,
              ins_result>>

m2_vars == <<m2_pc, m2_same_name, m2_autoCreateSubnetworks, m2_subnetwork,
             m2_preserve_ip, m2_instance_template, m2_all_disks_info, m2_next,
             m2_remote, m2_calls, m2_confirmed, m2_result>>

res_vars == <<res_pc, res_remote_group, res_remote_instance, res_log>>

vars == <<mig_vars, uig_vars, fr_vars, tp_vars, ow_vars, sn_vars, igh_vars,
          pip_vars, mem_vars, ins_vars, m2_vars, res_vars>>

\* what a step of one component leaves alone
mig_others == <<uig_vars, fr_vars, tp_vars, ow_vars, sn_vars, igh_vars,
                pip_vars, mem_vars, ins_vars, m2_vars, res_vars>>
uig_others == <<mig_vars, fr_vars, tp_vars, ow_vars, sn_vars, igh_vars,
                pip_vars, mem_vars, ins_vars, m2_vars, res_vars>>
fr_others == <<mig_vars, uig_vars, tp_vars, ow_vars, sn_vars, igh_vars,
               pip_vars, mem_vars, ins_vars, m2_vars, res_vars>>
tp_others == <<mig_vars, uig_vars, fr_vars, ow_vars, sn_vars, igh_vars,
               pip_vars, mem_vars, ins_vars, m2_vars, res_vars>>
ow_others == <<mig_vars, uig_vars, fr_vars, tp_vars, sn_vars, igh_vars,
               pip_vars, mem_vars, ins_vars, m2_vars, res_vars>>
sn_others == <<mig_vars, uig_vars, fr_vars, tp_vars, ow_vars, igh_vars,
               pip_vars, mem_vars, ins_vars, m2_vars, res_vars>>
igh_others == <<mig_vars, uig_vars, fr_vars, tp_vars, ow_vars, sn_vars,
                pip_vars, mem_vars, ins_vars, m2_vars, res_vars>>
pip_others == <<mig_vars, uig_vars, fr_vars, tp_vars, ow_vars, sn_vars,
                igh_vars, mem_vars, ins_vars, m2_vars, res_vars>>
mem_others == <<mig_vars, uig_vars, fr_vars, tp_vars, ow_vars, sn_vars,
                igh_vars, pip_vars, ins_vars, m2_vars, res_vars>>
ins_others == <<mig_vars, uig_vars, fr_vars, tp_vars, ow_vars, sn_vars,
                igh_vars, pip_vars, mem_vars, m2_vars, res_vars>>
m2_others == <<mig_vars, uig_vars, fr_vars, tp_vars, ow_vars, sn_vars,
               igh_vars, pip_vars, mem_vars, ins_vars, res_vars>>
res_others == <<mig_vars, uig_vars, fr_vars, tp_vars, ow_vars, sn_vars,
                igh_vars, pip_vars, mem_vars, ins_vars, m2_vars>>

(* Bounds of the model. *)

\* network_migration() calls on one handler object
MaxInvocations == 2
\* target pools that may reference one instance group
MaxTargetPools == 2
\* member instances of one unmanaged instance group
MaxMembers == 2
\* backend services behind one global forwarding rule
MaxBackendServices == 2
\* forwarding rules, other than the migrated one, that use a backend service
MaxOtherRules == 2
\* network_migration() calls on one forwarding-rule handler
MaxRuleInvocations == 2
\* instances in one target pool
MaxPoolInstances == 2
\* polls of a waiter that find the operation unfinished
MaxPolls == 3
\* characters in the name of a subnetwork
MaxNameLen == 2
\* subnetworks one network declares
MaxDeclared == 2
MaxMembershipCalls == 2
\* disks attached to the instance main2 migrates
MaxDisks == 2
\* calls a resumed migration makes on one resource
MaxResumedCalls == 3

-----------------------------------------------------------------------------
(* Networks.  A legacy network has no subnetworks: the 'subnetwork' key is  *)
(* absent from the configs of a resource on it, written NoSubnetwork.       *)

LegacyNetwork == "legacy-network"
TargetNetwork == "target-network"
TargetSubnetwork == "target-subnet"
OtherSubnetwork == "other-subnet"
NoSubnetwork == "absent"

Networks == {LegacyNetwork, TargetNetwork}

\* the network/subnetwork pairs a resource can be configured with
NetworkSettings ==
    { <<LegacyNetwork, NoSubnetwork>>,
      <<TargetNetwork, TargetSubnetwork>>,
      <<TargetNetwork, OtherSubnetwork>> }

\* the values of the fields the migration does not reason about
OtherFields == {"props-a", "props-b"}

(* utils.is_equal_or_contians on two links of one project: a link and its   *)
(* project-relative suffix name the same resource.                          *)
is_equal_or_contians(link_a, link_b) == link_a = link_b

(* Instance.compare_original_network_and_target_network, on the subnetwork  *)
(* of interface 0; InstanceTemplate and UnmanagedInstanceGroup have the     *)
(* same comparison over their own configs.                                  *)
compare_original_network_and_target_network(subnetwork, target_subnetwork) ==
    IF subnetwork = NoSubnetwork
    THEN FALSE
    ELSE IF is_equal_or_contians(subnetwork, target_subnetwork)
         THEN TRUE
         ELSE FALSE

-----------------------------------------------------------------------------
(* MIG: a managed instance group and its migration handler.                 *)

MigrationStatus ==
    [NOT_START |-> 0, MIGRATING |-> 1, NEW_INSTANCE_TEMPLATE_CREATED |-> 2,
     ORIGINAL_GROUP_DELETED |-> 3, NEW_GROUP_CREATED |-> 4]

\* the name of the group's first template; generated names are larger
FirstTemplateName == 1

Template(name, net, other) ==
    [name |-> name, network |-> net[1], subnetwork |-> net[2], other |-> other]

GroupConfigs(template_name, other) ==
    [name |-> "group", instanceTemplate |-> template_name, other |-> other]

\* ManagedInstanceGroup.retrieve_instance_template_name(configs)
retrieve_instance_template_name(configs) == configs.instanceTemplate

\* the template a name stands for among `templates` ({} when there is none)
TemplatesNamed(templates, name) == {t \in templates : t.name = name}

\* a name no template of `templates` carries
FreshName(templates) ==
    1 + (CHOOSE n \in {t.name : t \in templates} \cup {0} :
            \A t \in templates : t.name <= n)

TemplateNamed(name) == TemplatesNamed(remote_templates, name)

\* generating_new_instance_template_using_network_info gives the new template
\* a freshly generated name
FreshTemplateName == FreshName(remote_templates)

\* InstanceTemplate.generating_new_instance_template_using_network_info
generating_new_instance_template_using_network_info(template, name) ==
    [template EXCEPT !.name = name,
                     !.network = TargetNetwork,
                     !.subnetwork = TargetSubnetwork]

\* ManagedInstanceGroup.modify_instance_group_configs_with_instance_template
modify_instance_group_configs_with_instance_template(configs, template_link) ==
    [configs EXCEPT !.instanceTemplate = template_link]

\* ManagedInstanceGroup.get_status(): NOTEXISTS or not
InstanceGroupExists == remote_group # {}

MigRaise(error) ==
    /\ mig_pc' = "idle"
    /\ mig_result' = error

MigReturn ==
    /\ mig_pc' = "idle"
    /\ mig_result' = "returned"

MigIssue(call) == mig_calls' = Append(mig_calls, call)

InitMIG ==
    /\ \E net \in NetworkSettings, other \in OtherFields, tother \in OtherFields :
          /\ remote_templates = {Template(FirstTemplateName, net, tother)}
          /\ remote_group = {GroupConfigs(FirstTemplateName, other)}
          /\ original_instance_group_configs = GroupConfigs(FirstTemplateName, other)
          /\ new_instance_group_configs = GroupConfigs(FirstTemplateName, other)
    /\ target_pool_list \in {1..n : n \in 0..MaxTargetPools}
    /\ autoscaler \in BOOLEAN
    /\ preserve_external_ip \in BOOLEAN
    /\ mig_pc = "idle"
    /\ migration_status = MigrationStatus.NOT_START
    /\ original_instance_template = {}
    /\ new_instance_template = {}
    /\ mig_op = "none"
    /\ mig_result = "none"
    /\ mig_calls = <<>>
    /\ mig_entry_status = 0
    /\ mig_entry_remote = <<remote_group, remote_templates>>
    /\ mig_invocations = 0
    /\ mig_warnings = {}

OffMIG ==
    /\ remote_templates = {}
    /\ remote_group = {}
    /\ original_instance_group_configs = GroupConfigs(FirstTemplateName, "props-a")
    /\ new_instance_group_configs = GroupConfigs(FirstTemplateName, "props-a")
    /\ target_pool_list = {}
    /\ autoscaler = FALSE
    /\ preserve_external_ip = FALSE
    /\ mig_pc = "off"
    /\ migration_status = 0
    /\ original_instance_template = {}
    /\ new_instance_template = {}
    /\ mig_op = "none"
    /\ mig_result = "none"
    /\ mig_calls = <<>>
    /\ mig_entry_status = 0
    /\ mig_entry_remote = <<remote_group, remote_templates>>
    /\ mig_invocations = 0
    /\ mig_warnings = {}


\* ManagedInstanceGroup.get_target_pools(): the pools the group serves now
get_target_pools == target_pool_list

mig_remote == <<remote_group, remote_templates>>
mig_inputs == <<target_pool_list, autoscaler, preserve_external_ip>>
mig_configs == <<original_instance_group_configs, new_instance_group_configs>>
mig_templates == <<original_instance_template, new_instance_template>>
mig_run == <<mig_op, mig_entry_status, mig_entry_remote, mig_invocations>>

(* ManagedInstanceGroupMigration.__init__: a handler is built for the       *)
(* group as it is now; both snapshots are taken from the remote configs.    *)
mig_construct ==
    /\ mig_pc = "idle"
    /\ UNCHANGED mig_others
    /\ InstanceGroupExists
    /\ \E configs \in remote_group :
          /\ original_instance_group_configs' = configs
          /\ new_instance_group_configs' = configs
    /\ original_instance_template' = {}
    /\ new_instance_template' = {}
    /\ migration_status' = MigrationStatus.NOT_START
    /\ mig_op' = "construct"
    /\ mig_result' = "returned"
    /\ mig_calls' = <<>>
    /\ mig_warnings' = {}
    /\ mig_entry_status' = migration_status
    /\ mig_entry_remote' = <<remote_group, remote_templates>>
    /\ UNCHANGED <<mig_pc, mig_remote, mig_inputs, mig_invocations>>

(* network_migration(), entry: the checkpoint is reset and the warning for  *)
(* preserve_external_ip is given.                                           *)
network_migration_enter ==
    /\ mig_pc = "idle"
    /\ UNCHANGED mig_others
    /\ mig_invocations < MaxInvocations
    /\ migration_status' = MigrationStatus.NOT_START
    /\ mig_op' = "network_migration"
    /\ mig_result' = "running"
    /\ mig_calls' = <<>>
    /\ mig_entry_status' = migration_status
    /\ mig_entry_remote' = <<remote_group, remote_templates>>
    /\ mig_invocations' = mig_invocations + 1
    /\ mig_warnings' = IF preserve_external_ip THEN {"external-ip"} ELSE {}
    /\ mig_pc' = "check_target_pools"
    /\ UNCHANGED <<mig_remote, mig_inputs, mig_configs, mig_templates>>

(* The guard written with an off-by-one: a group that serves exactly one    *)
(* target pool passes.                                                      *)
check_target_pools_off_by_one ==
    /\ mig_pc = "check_target_pools"
    /\ UNCHANGED mig_others
    /\ IF ~InstanceGroupExists
       THEN /\ MigRaise("HttpError")
            /\ UNCHANGED mig_warnings
       ELSE IF Cardinality(get_target_pools) > 1
       THEN /\ MigRaise("MigrationFailed")
            /\ mig_warnings' = mig_warnings \cup {"target-pools"}
       ELSE /\ mig_pc' = "retrieve_template"
            /\ mig_warnings' =
                 IF autoscaler THEN mig_warnings \cup {"autoscaler"} ELSE mig_warnings
            /\ UNCHANGED mig_result
    /\ UNCHANGED <<mig_remote, mig_inputs, mig_configs, mig_templates,
                   migration_status, mig_run, mig_calls>>

(* network_migration(), the guard: a group that serves a target pool is not *)
(* migrated.                                                                *)
check_target_pools ==
    /\ mig_pc = "check_target_pools"
    /\ UNCHANGED mig_others
    /\ IF ~InstanceGroupExists
       THEN /\ MigRaise("HttpError")
            /\ UNCHANGED mig_warnings
       ELSE IF Cardinality(get_target_pools) # 0
       THEN /\ MigRaise("MigrationFailed")
            /\ mig_warnings' = mig_warnings \cup {"target-pools"}
       ELSE /\ mig_pc' = "retrieve_template"
            /\ mig_warnings' =
                 IF autoscaler THEN mig_warnings \cup {"autoscaler"} ELSE mig_warnings
            /\ UNCHANGED mig_result
    /\ UNCHANGED <<mig_remote, mig_inputs, mig_configs, mig_templates,
                   migration_status, mig_run, mig_calls>>

(* network_migration(): the template named by the ORIGINAL configs is read; *)
(* when it already uses the target subnet the method returns.               *)
retrieve_template ==
    /\ mig_pc = "retrieve_template"
    /\ UNCHANGED mig_others
    /\ LET found == TemplateNamed(
                      retrieve_instance_template_name(original_instance_group_configs))
       IN IF found = {}
          THEN /\ MigRaise("HttpError")
               /\ UNCHANGED <<original_instance_template, migration_status>>
          ELSE /\ original_instance_template' = found
               /\ IF \E t \in found :
                       compare_original_network_and_target_network(
                           t.subnetwork, TargetSubnetwork)
                  THEN /\ MigReturn
                       /\ UNCHANGED migration_status
                  ELSE /\ migration_status' = MigrationStatus.MIGRATING
                       /\ mig_pc' = "generate_template"
                       /\ UNCHANGED mig_result
    /\ UNCHANGED <<mig_remote, mig_inputs, mig_configs, new_instance_template,
                   mig_run, mig_calls, mig_warnings>>

(* The insert left out: the derived template is taken as inserted.          *)
generate_template_skipping_insert ==
    /\ mig_pc = "generate_template"
    /\ UNCHANGED mig_others
    /\ \/ /\ new_instance_template' =
               { generating_new_instance_template_using_network_info(
                     t, FreshTemplateName) : t \in original_instance_template }
          /\ mig_pc' = "modify_configs"
          /\ UNCHANGED mig_result
       \/ /\ new_instance_template' = {}
          /\ MigRaise("UnableToGenerateNewInstanceTemplate")
    /\ UNCHANGED <<mig_remote, mig_inputs, mig_configs, original_instance_template,
                   migration_status, mig_run, mig_calls, mig_warnings>>

(* network_migration(): a new template is derived, or None comes back.      *)
generate_template ==
    /\ mig_pc = "generate_template"
    /\ UNCHANGED mig_others
    /\ \/ /\ new_instance_template' =
               { generating_new_instance_template_using_network_info(
                     t, FreshTemplateName) : t \in original_instance_template }
          /\ mig_pc' = "insert_template"
          /\ UNCHANGED mig_result
       \/ /\ new_instance_template' = {}
          /\ MigRaise("UnableToGenerateNewInstanceTemplate")
    /\ UNCHANGED <<mig_remote, mig_inputs, mig_configs, original_instance_template,
                   migration_status, mig_run, mig_calls, mig_warnings>>

(* The checkpoint advanced before the insert is confirmed: it is 2 also     *)
(* when the insert raised.                                                  *)
insert_template_checkpoint_first ==
    /\ mig_pc = "insert_template"
    /\ UNCHANGED mig_others
    /\ MigIssue("insert_template")
    /\ migration_status' = MigrationStatus.NEW_INSTANCE_TEMPLATE_CREATED
    /\ \/ /\ remote_templates' = remote_templates \cup new_instance_template
          /\ mig_pc' = "modify_configs"
          /\ UNCHANGED mig_result
       \/ /\ MigRaise("HttpError")
          /\ UNCHANGED remote_templates
    /\ UNCHANGED <<remote_group, mig_inputs, mig_configs, mig_templates,
                   mig_run, mig_warnings>>

(* network_migration(): new_instance_template.insert(), then checkpoint 2.  *)
insert_template ==
    /\ mig_pc = "insert_template"
    /\ UNCHANGED mig_others
    /\ MigIssue("insert_template")
    /\ \/ /\ remote_templates' = remote_templates \cup new_instance_template
          /\ migration_status' = MigrationStatus.NEW_INSTANCE_TEMPLATE_CREATED
          /\ mig_pc' = "modify_configs"
          /\ UNCHANGED mig_result
       \/ /\ MigRaise("HttpError")
          /\ UNCHANGED <<remote_templates, migration_status>>
    /\ UNCHANGED <<remote_group, mig_inputs, mig_configs, mig_templates,
                   mig_run, mig_warnings>>

(* The steps with the delete left out: after the configs are pointed at    *)
(* the new template the group is created at once.                           *)
modify_configs_skipping_delete ==
    /\ mig_pc = "modify_configs"
    /\ UNCHANGED mig_others
    /\ \E t \in new_instance_template :
          new_instance_group_configs' =
              modify_instance_group_configs_with_instance_template(
                  new_instance_group_configs, t.name)
    /\ mig_pc' = "create_group"
    /\ UNCHANGED <<mig_remote, mig_inputs, original_instance_group_configs,
                   mig_templates, migration_status, mig_run, mig_calls,
                   mig_warnings, mig_result>>

(* network_migration(): the new configs are pointed at the new template.    *)
modify_configs ==
    /\ mig_pc = "modify_configs"
    /\ UNCHANGED mig_others
    /\ \E t \in new_instance_template :
          new_instance_group_configs' =
              modify_instance_group_configs_with_instance_template(
                  new_instance_group_configs, t.name)
    /\ mig_pc' = "delete_group"
    /\ UNCHANGED <<mig_remote, mig_inputs, original_instance_group_configs,
                   mig_templates, migration_status, mig_run, mig_calls,
                   mig_warnings, mig_result>>

(* The deletion that also takes the new configs back to the original ones. *)
delete_group_rewriting_configs ==
    /\ mig_pc = "delete_group"
    /\ UNCHANGED mig_others
    /\ MigIssue("delete_group")
    /\ new_instance_group_configs' = original_instance_group_configs
    /\ \/ /\ InstanceGroupExists
          /\ remote_group' = {}
          /\ migration_status' = MigrationStatus.ORIGINAL_GROUP_DELETED
          /\ mig_pc' = "create_group"
          /\ UNCHANGED mig_result
       \/ /\ MigRaise("HttpError")
          /\ UNCHANGED <<remote_group, migration_status>>
    /\ UNCHANGED <<remote_templates, mig_inputs, original_instance_group_configs,
                   mig_templates, mig_run, mig_warnings>>

(* network_migration(): delete_instance_group(), then checkpoint 3.         *)
delete_group ==
    /\ mig_pc = "delete_group"
    /\ UNCHANGED mig_others
    /\ MigIssue("delete_group")
    /\ \/ /\ InstanceGroupExists
          /\ remote_group' = {}
          /\ migration_status' = MigrationStatus.ORIGINAL_GROUP_DELETED
          /\ mig_pc' = "create_group"
          /\ UNCHANGED mig_result
       \/ /\ MigRaise("HttpError")
          /\ UNCHANGED <<remote_group, migration_status>>
    /\ UNCHANGED <<remote_templates, mig_inputs, mig_configs, mig_templates,
                   mig_run, mig_warnings>>

(* network_migration(): create_instance_group(new configs), checkpoint 4.   *)
create_group ==
    /\ mig_pc = "create_group"
    /\ UNCHANGED mig_others
    /\ MigIssue("create_group")
    /\ \/ /\ ~InstanceGroupExists
          /\ remote_group' = {new_instance_group_configs}
          /\ migration_status' = MigrationStatus.NEW_GROUP_CREATED
          /\ MigReturn
       \/ /\ MigRaise("HttpError")
          /\ remote_group' \in {remote_group, {new_instance_group_configs}}
          /\ UNCHANGED migration_status
    /\ UNCHANGED <<remote_templates, mig_inputs, mig_configs, mig_templates,
                   mig_run, mig_warnings>>


(* rollback(), entry.                                                       *)
rollback_enter ==
    /\ mig_pc = "idle"
    /\ UNCHANGED mig_others
    /\ mig_op' = "rollback"
    /\ mig_result' = "running"
    /\ mig_calls' = <<>>
    /\ mig_warnings' = {}
    /\ mig_entry_status' = migration_status
    /\ mig_entry_remote' = <<remote_group, remote_templates>>
    /\ mig_pc' = "rollback_delete_group"
    /\ UNCHANGED <<mig_remote, mig_inputs, mig_configs, mig_templates,
                   migration_status, mig_invocations>>

(* The first block of rollback() entered from checkpoint 2 already: the     *)
(* group is deleted although the original group was never deleted.          *)
rollback_delete_group_from_checkpoint_2 ==
    /\ mig_pc = "rollback_delete_group"
    /\ UNCHANGED mig_others
    /\ IF migration_status >= 2
       THEN IF InstanceGroupExists
            THEN /\ MigIssue("delete_group")
                 /\ \/ /\ remote_group' = {}
                       /\ migration_status' = MigrationStatus.ORIGINAL_GROUP_DELETED
                       /\ mig_pc' = "rollback_recreate_group"
                       /\ UNCHANGED mig_result
                    \/ /\ MigRaise("HttpError")
                       /\ UNCHANGED <<remote_group, migration_status>>
            ELSE /\ migration_status' = MigrationStatus.ORIGINAL_GROUP_DELETED
                 /\ mig_pc' = "rollback_recreate_group"
                 /\ UNCHANGED <<remote_group, mig_calls, mig_result>>
       ELSE /\ mig_pc' = "rollback_recreate_group"
            /\ UNCHANGED <<remote_group, migration_status, mig_calls, mig_result>>
    /\ UNCHANGED <<remote_templates, mig_inputs, mig_configs, mig_templates,
                   mig_run, mig_warnings>>

(* rollback(), first block: at checkpoint >= 3 a group that exists (the new *)
(* one, or a half-created one) is deleted; the checkpoint becomes 3.        *)
rollback_delete_group ==
    /\ mig_pc = "rollback_delete_group"
    /\ UNCHANGED mig_others
    /\ IF migration_status >= 3
       THEN IF InstanceGroupExists
            THEN /\ MigIssue("delete_group")
                 /\ \/ /\ remote_group' = {}
                       /\ migration_status' = MigrationStatus.ORIGINAL_GROUP_DELETED
                       /\ mig_pc' = "rollback_recreate_group"
                       /\ UNCHANGED mig_result
                    \/ /\ MigRaise("HttpError")
                       /\ UNCHANGED <<remote_group, migration_status>>
            ELSE /\ migration_status' = MigrationStatus.ORIGINAL_GROUP_DELETED
                 /\ mig_pc' = "rollback_recreate_group"
                 /\ UNCHANGED <<remote_group, mig_calls, mig_result>>
       ELSE /\ mig_pc' = "rollback_recreate_group"
            /\ UNCHANGED <<remote_group, migration_status, mig_calls, mig_result>>
    /\ UNCHANGED <<remote_templates, mig_inputs, mig_configs, mig_templates,
                   mig_run, mig_warnings>>

(* rollback(), second block: at checkpoint 3 the group is created again     *)
(* from the original configs; the checkpoint becomes 2.                     *)
rollback_recreate_group ==
    /\ mig_pc = "rollback_recreate_group"
    /\ UNCHANGED mig_others
    /\ IF migration_status = 3
       THEN /\ MigIssue("create_group")
            /\ \/ /\ ~InstanceGroupExists
                  /\ remote_group' = {original_instance_group_configs}
                  /\ migration_status' = MigrationStatus.NEW_INSTANCE_TEMPLATE_CREATED
                  /\ mig_pc' = "rollback_delete_template"
                  /\ UNCHANGED mig_result
               \/ /\ MigRaise("HttpError")
                  /\ remote_group' \in {remote_group, {original_instance_group_configs}}
                  /\ UNCHANGED migration_status
       ELSE /\ mig_pc' = "rollback_delete_template"
            /\ UNCHANGED <<remote_group, migration_status, mig_calls, mig_result>>
    /\ UNCHANGED <<remote_templates, mig_inputs, mig_configs, mig_templates,
                   mig_run, mig_warnings>>

(* The third block without the assignment of line 164: the checkpoint stays *)
(* at 2 after the new template is deleted.                                  *)
rollback_delete_template_keeping_checkpoint ==
    /\ mig_pc = "rollback_delete_template"
    /\ UNCHANGED mig_others
    /\ IF migration_status = 2
       THEN /\ MigIssue("delete_template")
            /\ \/ /\ new_instance_template \subseteq remote_templates
                  /\ remote_templates' = remote_templates \ new_instance_template
                  /\ MigReturn
               \/ /\ MigRaise("HttpError")
                  /\ UNCHANGED remote_templates
            /\ UNCHANGED migration_status
       ELSE /\ MigReturn
            /\ UNCHANGED <<remote_templates, migration_status, mig_calls>>
    /\ UNCHANGED <<remote_group, mig_inputs, mig_configs, mig_templates,
                   mig_run, mig_warnings>>

(* rollback(), third block: at checkpoint 2 the new template is deleted and *)
(* the checkpoint becomes 0; then rollback() returns.                       *)
rollback_delete_template ==
    /\ mig_pc = "rollback_delete_template"
    /\ UNCHANGED mig_others
    /\ IF migration_status = 2
       THEN /\ MigIssue("delete_template")
            /\ \/ /\ new_instance_template \subseteq remote_templates
                  /\ remote_templates' = remote_templates \ new_instance_template
                  /\ migration_status' = 0
                  /\ MigReturn
               \/ /\ MigRaise("HttpError")
                  /\ UNCHANGED <<remote_templates, migration_status>>
       ELSE /\ MigReturn
            /\ UNCHANGED <<remote_templates, migration_status, mig_calls>>
    /\ UNCHANGED <<remote_group, mig_inputs, mig_configs, mig_templates,
                   mig_run, mig_warnings>>

NextMIG ==
    \/ mig_construct
    \/ network_migration_enter
    \/ check_target_pools
    \/ retrieve_template
    \/ generate_template
    \/ insert_template
    \/ modify_configs
    \/ delete_group
    \/ create_group
    \/ rollback_enter
    \/ rollback_delete_group
    \/ rollback_recreate_group
    \/ rollback_delete_template

(* network_migration() without its last step: the method returns after the *)
(* deletion of the original group.                                          *)
network_migration_outcomes_no_create(configs, group, templates) ==
    LET found == TemplatesNamed(templates, retrieve_instance_template_name(configs))
        same(result) == [result |-> result, group |-> group, templates |-> templates]
    IN  IF group = {} \/ found = {}
        THEN {same("HttpError")}
        ELSE LET original == CHOOSE t \in found : TRUE
                 new == generating_new_instance_template_using_network_info(
                            original, FreshName(templates))
                 inserted == templates \cup {new}
             IN  IF compare_original_network_and_target_network(
                        original.subnetwork, TargetSubnetwork)
                 THEN {same("returned")}
                 ELSE { [result |-> "returned", group |-> {},
                         templates |-> inserted],
                        same("UnableToGenerateNewInstanceTemplate"),
                        same("HttpError"),
                        [result |-> "HttpError", group |-> group,
                         templates |-> inserted] }

(* What one call of network_migration() makes of a group: the results it   *)
(* can end with and the remote state each leaves, for a handler whose       *)
(* original snapshot is `configs`, a group that serves no target pool, and  *)
(* the remote <<group, templates>> at the time of the call.  The callers of *)
(* the handler (the backend-service migration) take this as one step.       *)
network_migration_outcomes(configs, group, templates) ==
    LET found == TemplatesNamed(templates, retrieve_instance_template_name(configs))
        same(result) == [result |-> result, group |-> group, templates |-> templates]
    IN  IF group = {} \/ found = {}
        THEN {same("HttpError")}
        ELSE LET original == CHOOSE t \in found : TRUE
                 new == generating_new_instance_template_using_network_info(
                            original, FreshName(templates))
                 new_configs == modify_instance_group_configs_with_instance_template(
                                    configs, new.name)
                 inserted == templates \cup {new}
             IN  IF compare_original_network_and_target_network(
                        original.subnetwork, TargetSubnetwork)
                 THEN {same("returned")}
                 ELSE { [result |-> "returned", group |-> {new_configs},
                         templates |-> inserted],
                        same("UnableToGenerateNewInstanceTemplate"),
                        same("HttpError"),
                        [result |-> "HttpError", group |-> group,
                         templates |-> inserted],
                        [result |-> "HttpError", group |-> {},
                         templates |-> inserted],
                        [result |-> "HttpError", group |-> {new_configs},
                         templates |-> inserted] }

\* every run of the steps of network_migration() ends in one of its outcomes
OutcomesCoverTheSteps ==
    (mig_op = "network_migration" /\ mig_pc = "idle" /\ target_pool_list = {}) =>
        [result |-> mig_result, group |-> remote_group, templates |-> remote_templates]
            \in network_migration_outcomes(original_instance_group_configs,
                                           mig_entry_remote[1], mig_entry_remote[2])

-----------------------------------------------------------------------------
(* UIG: an unmanaged instance group, its member instances and               *)
(* InstanceGroupNetworkMigration.migrate_unmanaged_instance_group.          *)

Deleted == "deleted"

Members == 1..MaxMembers

UnmanagedGroupConfigs(net, other) ==
    [name |-> "unmanaged-group", network |-> net[1], subnetwork |-> net[2],
     other |-> other]

\* UnmanagedInstanceGroup.get_new_instance_group_configs_using_new_network
get_new_instance_group_configs_using_new_network(instance_group_configs, network_link, subnetwork_link) ==
    [instance_group_configs EXCEPT !.network = network_link,
                                   !.subnetwork = subnetwork_link]

\* UnmanagedInstanceGroup.compare_original_network_and_target_network
uig_compare_original_network_and_target_network ==
    IF uig_original_configs.subnetwork = NoSubnetwork
    THEN FALSE
    ELSE IF is_equal_or_contians(uig_original_configs.subnetwork, TargetSubnetwork)
         THEN TRUE
         ELSE FALSE

UigRaise(error) ==
    /\ uig_pc' = "idle"
    /\ uig_result' = error

UigIssue(call, instance) == uig_calls' = Append(uig_calls, <<call, instance>>)

uig_remote == <<uig_remote_group, uig_remote_members, uig_instance_subnetwork>>
uig_handle == <<uig_instance_selfLinks, uig_original_configs, uig_target_valid>>

InitUIG ==
    /\ \E net \in NetworkSettings, other \in OtherFields, n \in 0..MaxMembers :
          /\ uig_remote_group = {UnmanagedGroupConfigs(net, other)}
          /\ uig_original_configs = UnmanagedGroupConfigs(net, other)
          /\ uig_new_configs =
                get_new_instance_group_configs_using_new_network(
                    UnmanagedGroupConfigs(net, other), TargetNetwork, TargetSubnetwork)
          /\ uig_remote_members = 1..n
          /\ uig_instance_selfLinks = [i \in 1..n |-> i]
          /\ uig_instance_subnetwork = [i \in Members |-> net[2]]
    /\ uig_target_valid \in BOOLEAN
    /\ uig_network = {}
    /\ uig_pc = "idle"
    /\ uig_next = 1
    /\ uig_result = "none"
    /\ uig_calls = <<>>
    /\ uig_warnings = {}

OffUIG ==
    /\ uig_remote_group = {}
    /\ uig_original_configs = UnmanagedGroupConfigs(<<LegacyNetwork, NoSubnetwork>>, "props-a")
    /\ uig_new_configs = UnmanagedGroupConfigs(<<LegacyNetwork, NoSubnetwork>>, "props-a")
    /\ uig_remote_members = {}
    /\ uig_instance_selfLinks = <<>>
    /\ uig_instance_subnetwork = [i \in Members |-> Deleted]
    /\ uig_target_valid = FALSE
    /\ uig_network = {}
    /\ uig_pc = "off"
    /\ uig_next = 1
    /\ uig_result = "none"
    /\ uig_calls = <<>>
    /\ uig_warnings = {}

(* migrate_unmanaged_instance_group, lines 118-126: the target network is   *)
(* resolved; a refused target raises before anything else is done.          *)
uig_generate_network ==
    /\ uig_pc = "idle"
    /\ uig_result = "none"
    /\ UNCHANGED uig_others
    /\ uig_calls' = <<>>
    /\ uig_warnings' = {}
    /\ uig_next' = 1
    /\ IF uig_target_valid
       THEN /\ uig_network' = {TargetSubnetwork}
            /\ uig_pc' = "migrate_instances"
            /\ uig_result' = "running"
       ELSE /\ UigRaise("InvalidTargetNetworkError")
            /\ UNCHANGED uig_network
    /\ UNCHANGED <<uig_remote, uig_handle, uig_new_configs>>

(* The instance FSM run on one member: nothing is done for an instance that *)
(* already uses the target subnet; else the instance is stopped, its disks  *)
(* are detached, it is deleted (which ends its membership) and it is        *)
(* created again on the target subnet.  A failing call ends the run.        *)
InstanceNetworkMigration(instance) ==
    IF compare_original_network_and_target_network(
           uig_instance_subnetwork[instance], TargetSubnetwork)
    THEN UNCHANGED <<uig_remote, uig_calls, uig_pc, uig_result>>
    ELSE \/ /\ uig_calls' = uig_calls \o << <<"stop_instance", instance>>,
                                            <<"detach_disks", instance>>,
                                            <<"delete_instance", instance>>,
                                            <<"create_instance", instance>> >>
            /\ uig_instance_subnetwork' =
                  [uig_instance_subnetwork EXCEPT ![instance] = TargetSubnetwork]
            /\ uig_remote_members' = uig_remote_members \ {instance}
            /\ UNCHANGED <<uig_remote_group, uig_pc, uig_result>>
         \/ /\ UigIssue("stop_instance", instance)
            /\ UigRaise("ZoneOperationsError")
            /\ UNCHANGED uig_remote
         \/ /\ uig_calls' = uig_calls \o << <<"stop_instance", instance>>,
                                            <<"detach_disks", instance>>,
                                            <<"delete_instance", instance>>,
                                            <<"create_instance", instance>> >>
            /\ uig_instance_subnetwork' =
                  [uig_instance_subnetwork EXCEPT ![instance] = Deleted]
            /\ uig_remote_members' = uig_remote_members \ {instance}
            /\ UigRaise("ZoneOperationsError")
            /\ UNCHANGED uig_remote_group

(* migrate_unmanaged_instance_group, lines 127-131: the members are         *)
(* migrated one after the other.                                            *)
uig_migrate_instance ==
    /\ uig_pc = "migrate_instances"
    /\ uig_next <= Len(uig_instance_selfLinks)
    /\ UNCHANGED uig_others
    /\ InstanceNetworkMigration(uig_instance_selfLinks[uig_next])
    /\ uig_next' = uig_next + 1
    /\ UNCHANGED <<uig_handle, uig_network, uig_new_configs, uig_warnings>>

(* The loop over the members left one member early: the group is deleted    *)
(* with the last member not migrated yet.                                   *)
uig_update_new_configs_before_last_member ==
    /\ uig_pc = "migrate_instances"
    /\ uig_next >= Len(uig_instance_selfLinks)
    /\ UNCHANGED uig_others
    /\ uig_new_configs' =
          get_new_instance_group_configs_using_new_network(
              uig_original_configs, TargetNetwork, TargetSubnetwork)
    /\ uig_pc' = "delete_group"
    /\ UNCHANGED <<uig_remote, uig_handle, uig_network, uig_next, uig_result,
                   uig_calls, uig_warnings>>

(* migrate_unmanaged_instance_group, line 132: update_new_instance_group_   *)
(* configs() derives the new configs from the original ones.                *)
uig_update_new_configs ==
    /\ uig_pc = "migrate_instances"
    /\ uig_next > Len(uig_instance_selfLinks)
    /\ UNCHANGED uig_others
    /\ uig_new_configs' =
          get_new_instance_group_configs_using_new_network(
              uig_original_configs, TargetNetwork, TargetSubnetwork)
    /\ uig_pc' = "delete_group"
    /\ UNCHANGED <<uig_remote, uig_handle, uig_network, uig_next, uig_result,
                   uig_calls, uig_warnings>>

(* migrate_unmanaged_instance_group, lines 133-134, and                     *)
(* UnmanagedInstanceGroup.delete_instance_group.                            *)
uig_delete_instance_group ==
    /\ uig_pc = "delete_group"
    /\ UNCHANGED uig_others
    /\ UigIssue("delete_instance_group", 0)
    /\ \/ /\ uig_remote_group # {}
          /\ uig_remote_group' = {}
          /\ uig_remote_members' = {}
          /\ uig_pc' = "create_group"
          /\ UNCHANGED uig_result
       \/ /\ UigRaise("HttpError")
          /\ UNCHANGED <<uig_remote_group, uig_remote_members>>
    /\ UNCHANGED <<uig_instance_subnetwork, uig_handle, uig_network,
                   uig_new_configs, uig_next, uig_warnings>>

(* migrate_unmanaged_instance_group, lines 135-137, and                     *)
(* UnmanagedInstanceGroup.create_instance_group.                            *)
uig_create_instance_group ==
    /\ uig_pc = "create_group"
    /\ UNCHANGED uig_others
    /\ UigIssue("create_instance_group", 0)
    /\ \/ /\ uig_remote_group = {}
          /\ uig_remote_group' = {uig_new_configs}
          /\ uig_pc' = "add_instances"
          /\ uig_next' = 1
          /\ UNCHANGED uig_result
       \/ /\ UigRaise("HttpError")
          /\ uig_remote_group' \in {uig_remote_group, {uig_new_configs}}
          /\ UNCHANGED uig_next
    /\ UNCHANGED <<uig_remote_members, uig_instance_subnetwork, uig_handle,
                   uig_network, uig_new_configs, uig_warnings>>

(* UnmanagedInstanceGroup.add_an_instance: the error 'already a member of'  *)
(* is a warning, any other error is raised.                                 *)
add_an_instance(instance_selfLink) ==
    /\ UigIssue("add_instance", instance_selfLink)
    /\ IF instance_selfLink \in uig_remote_members
       THEN /\ uig_warnings' = uig_warnings \cup {<<"already a member of", instance_selfLink>>}
            /\ UNCHANGED <<uig_remote_members, uig_pc, uig_result>>
       ELSE \/ /\ uig_instance_subnetwork[instance_selfLink] # Deleted
               /\ uig_remote_members' = uig_remote_members \cup {instance_selfLink}
               /\ UNCHANGED <<uig_warnings, uig_pc, uig_result>>
            \/ /\ UigRaise("AddInstanceToInstanceGroupError")
               /\ UNCHANGED <<uig_remote_members, uig_warnings>>

(* migrate_unmanaged_instance_group, lines 138-139, and add_all_instances:  *)
(* one member is added back per step.                                       *)
uig_add_instance ==
    /\ uig_pc = "add_instances"
    /\ uig_next <= Len(uig_instance_selfLinks)
    /\ UNCHANGED uig_others
    /\ add_an_instance(uig_instance_selfLinks[uig_next])
    /\ uig_next' = uig_next + 1
    /\ UNCHANGED <<uig_remote_group, uig_instance_subnetwork, uig_handle,
                   uig_network, uig_new_configs>>

(* add_all_instances is over: migrate_unmanaged_instance_group returns.     *)
uig_return ==
    /\ uig_pc = "add_instances"
    /\ uig_next > Len(uig_instance_selfLinks)
    /\ UNCHANGED uig_others
    /\ uig_pc' = "idle"
    /\ uig_result' = "returned"
    /\ UNCHANGED <<uig_remote, uig_handle, uig_network, uig_new_configs,
                   uig_next, uig_calls, uig_warnings>>

NextUIG ==
    \/ uig_generate_network
    \/ uig_migrate_instance
    \/ uig_update_new_configs
    \/ uig_delete_instance_group
    \/ uig_create_instance_group
    \/ uig_add_instance
    \/ uig_return

-----------------------------------------------------------------------------
(* FR: a forwarding rule, its backends and ForwardingRuleMigration.         *)

Backends == 1..MaxBackendServices

ForwardingRuleKinds ==
    {"ExternalRegionalForwardingRule", "InternalRegionalForwardingRule",
     "GlobalForwardingRule"}

ForwardingRuleConfigs(net, other, backends) ==
    [name |-> "rule", network |-> net[1], subnetwork |-> net[2], other |-> other,
     target |-> backends]

\* ForwardingRule.new_forwarding_rule_configs: the configs under the target network
NewForwardingRuleConfigs(configs) ==
    [configs EXCEPT !.network = TargetNetwork, !.subnetwork = TargetSubnetwork]

BackendServiceConfigs(backend, other) ==
    [name |-> backend, other |-> other, backends |-> <<"group">>]

\* BackendService.count_forwarding_rules()
count_forwarding_rules(backend) ==
    bs_other_rules[backend] + (IF fr_remote = {} THEN 0 ELSE 1)

FrRaise(error) ==
    /\ fr_pc' = "idle"
    /\ fr_result' = error

FrReturn ==
    /\ fr_pc' = "idle"
    /\ fr_result' = "returned"

FrIssue(call, what) == fr_calls' = Append(fr_calls, <<call, what>>)

fr_fixed == <<fr_kind, fr_proxy, fr_original_configs, fr_new_configs, fr_backends,
              bs_config, bs_other_rules>>
bs_remote == <<bs_group, bs_templates, bs_migrations>>
fr_run == <<fr_op, fr_invocations>>

InitFR ==
    /\ fr_kind \in ForwardingRuleKinds
    /\ \E n \in 0..MaxBackendServices :
          /\ fr_kind # "GlobalForwardingRule" => n <= 1
          /\ fr_backends = [i \in 1..n |-> i]
    /\ \E net \in NetworkSettings, other \in OtherFields :
          /\ fr_remote = {ForwardingRuleConfigs(net, other, fr_backends)}
          /\ fr_original_configs = ForwardingRuleConfigs(net, other, fr_backends)
          /\ fr_new_configs =
                NewForwardingRuleConfigs(ForwardingRuleConfigs(net, other, fr_backends))
    /\ fr_proxy = [name |-> "proxy", other |-> "props-a"]
    /\ fr_target_pool = "original"
    /\ bs_config = [b \in Backends |-> BackendServiceConfigs(b, "props-a")]
    /\ bs_group = [b \in Backends |-> {GroupConfigs(FirstTemplateName, "props-a")}]
    /\ \E nets \in [Backends -> NetworkSettings] :
          /\ \A b \in Backends :
                b > Len(fr_backends) => nets[b] = <<LegacyNetwork, NoSubnetwork>>
          /\ bs_templates =
                [b \in Backends |-> {Template(FirstTemplateName, nets[b], "props-b")}]
    /\ \E others \in [Backends -> 0..MaxOtherRules] :
          /\ \A b \in Backends :
                (b > Len(fr_backends) \/ fr_kind # "InternalRegionalForwardingRule")
                    => others[b] = 0
          /\ bs_other_rules = others
    /\ fr_pc = "idle"
    /\ backends_migration_handlers = <<>>
    /\ fr_handler = {}
    /\ fr_next = 1
    /\ fr_op = "none"
    /\ fr_result = "none"
    /\ fr_calls = <<>>
    /\ fr_notices = {}
    /\ fr_invocations = 0
    /\ bs_migrations = [b \in Backends |-> 0]

OffFR ==
    /\ fr_kind = "GlobalForwardingRule"
    /\ fr_backends = <<>>
    /\ fr_remote = {}
    /\ fr_original_configs =
          ForwardingRuleConfigs(<<LegacyNetwork, NoSubnetwork>>, "props-a", <<>>)
    /\ fr_new_configs =
          ForwardingRuleConfigs(<<LegacyNetwork, NoSubnetwork>>, "props-a", <<>>)
    /\ fr_proxy = [name |-> "proxy", other |-> "props-a"]
    /\ fr_target_pool = "original"
    /\ bs_config = [b \in Backends |-> BackendServiceConfigs(b, "props-a")]
    /\ bs_group = [b \in Backends |-> {}]
    /\ bs_templates = [b \in Backends |-> {}]
    /\ bs_other_rules = [b \in Backends |-> 0]
    /\ fr_pc = "off"
    /\ backends_migration_handlers = <<>>
    /\ fr_handler = {}
    /\ fr_next = 1
    /\ fr_op = "none"
    /\ fr_result = "none"
    /\ fr_calls = <<>>
    /\ fr_notices = {}
    /\ fr_invocations = 0
    /\ bs_migrations = [b \in Backends |-> 0]

(* SelfLinkExecutor(...).build_backend_service_migration_handler(): the     *)
(* handler of a backend service holds the handle of its instance group,     *)
(* built from the group's configs as they are now.                          *)
BackendServiceHandlers(backend) ==
    { [kind |-> "backend_service", backend |-> backend, configs |-> configs] :
          configs \in bs_group[backend] }

(* BackendServiceMigration.network_migration(): the instance group behind   *)
(* the backend service is migrated by its own handler; the backend service  *)
(* itself is neither deleted nor changed.  TRUE is the case of a normal     *)
(* return, FALSE the case of an error.                                      *)
BackendServiceMigration(handler, returns) ==
    \E outcome \in network_migration_outcomes(
                       handler.configs, bs_group[handler.backend],
                       bs_templates[handler.backend]) :
        /\ returns <=> (outcome.result = "returned")
        /\ bs_group' = [bs_group EXCEPT ![handler.backend] = outcome.group]
        /\ bs_templates' = [bs_templates EXCEPT ![handler.backend] = outcome.templates]
        /\ bs_migrations' = [bs_migrations EXCEPT ![handler.backend] = @ + 1]
        /\ FrIssue("migrate_backend_service", handler.backend)
        /\ IF returns THEN UNCHANGED fr_result ELSE fr_result' = outcome.result

(* network_migration(): the procedure is chosen by the class of the rule.   *)
fr_network_migration ==
    /\ fr_pc = "idle"
    /\ fr_invocations < MaxRuleInvocations
    /\ UNCHANGED fr_others
    /\ fr_op' = "network_migration"
    /\ fr_result' = "running"
    /\ fr_calls' = <<>>
    /\ fr_notices' = {}
    /\ fr_next' = 1
    /\ fr_handler' = {}
    /\ fr_invocations' = fr_invocations + 1
    /\ fr_pc' = CASE fr_kind = "ExternalRegionalForwardingRule" -> "external_build"
                  [] fr_kind = "InternalRegionalForwardingRule" -> "internal_build"
                  [] fr_kind = "GlobalForwardingRule" -> "global_build"
    /\ UNCHANGED <<fr_fixed, fr_remote, fr_target_pool, bs_remote,
                   backends_migration_handlers>>

(* migrate_an_external_regional_forwarding_rule, lines 84-92: with no       *)
(* target pool the notice is printed and the executor is still built, on    *)
(* None, which raises; else the target pool's handler is built and saved.   *)
fr_external_build ==
    /\ fr_pc = "external_build"
    /\ UNCHANGED fr_others
    /\ IF fr_backends = <<>>
       THEN /\ fr_notices' = fr_notices \cup {"No backends need to be migrated"}
            /\ FrRaise("TypeError")
            /\ UNCHANGED backends_migration_handlers
       ELSE /\ backends_migration_handlers' =
                 Append(backends_migration_handlers,
                        [kind |-> "target_pool", backend |-> fr_backends[1],
                         configs |-> fr_target_pool])
            /\ fr_pc' = "external_migrate"
            /\ UNCHANGED <<fr_notices, fr_result>>
    /\ UNCHANGED <<fr_fixed, fr_remote, fr_target_pool, bs_remote, fr_handler,
                   fr_next, fr_run, fr_calls>>

(* migrate_an_external_regional_forwarding_rule, lines 93-94: the target    *)
(* pool's migration runs; it returns or raises.                             *)
fr_external_migrate ==
    /\ fr_pc = "external_migrate"
    /\ UNCHANGED fr_others
    /\ FrIssue("migrate_target_pool", fr_backends[1])
    /\ \/ /\ fr_target_pool' = "migrated"
          /\ FrReturn
       \/ /\ fr_target_pool' \in {fr_target_pool, "partly migrated"}
          /\ FrRaise("HttpError")
    /\ UNCHANGED <<fr_fixed, fr_remote, bs_remote, backends_migration_handlers,
                   fr_handler, fr_next, fr_run, fr_notices>>

(* migrate_an_internal_regional_forwarding_rule, lines 106-114.             *)
fr_internal_build ==
    /\ fr_pc = "internal_build"
    /\ UNCHANGED fr_others
    /\ IF fr_backends = <<>>
       THEN /\ fr_notices' = fr_notices \cup {"No backends need to be migrated"}
            /\ FrRaise("TypeError")
            /\ UNCHANGED fr_handler
       ELSE IF BackendServiceHandlers(fr_backends[1]) = {}
       THEN /\ FrRaise("HttpError")
            /\ UNCHANGED <<fr_handler, fr_notices>>
       ELSE /\ fr_handler' = BackendServiceHandlers(fr_backends[1])
            /\ fr_pc' = "internal_check"
            /\ UNCHANGED <<fr_notices, fr_result>>
    /\ UNCHANGED <<fr_fixed, fr_remote, fr_target_pool, bs_remote,
                   backends_migration_handlers, fr_next, fr_run, fr_calls>>

(* The guard written with the wrong limit: a backend service shared by two  *)
(* forwarding rules passes.                                                 *)
fr_internal_check_wrong_limit ==
    /\ fr_pc = "internal_check"
    /\ UNCHANGED fr_others
    /\ IF \E h \in fr_handler : count_forwarding_rules(h.backend) > 2
       THEN /\ fr_notices' = fr_notices \cup {"can not be migrated"}
            /\ FrReturn
       ELSE /\ fr_pc' = "internal_delete"
            /\ UNCHANGED <<fr_notices, fr_result>>
    /\ UNCHANGED <<fr_fixed, fr_remote, fr_target_pool, bs_remote,
                   backends_migration_handlers, fr_handler, fr_next, fr_run,
                   fr_calls>>

(* The procedure without the deletion: after the guard the backend service *)
(* is migrated with the forwarding rule still in place.                     *)
fr_internal_check_skipping_delete ==
    /\ fr_pc = "internal_check"
    /\ UNCHANGED fr_others
    /\ IF \E h \in fr_handler : count_forwarding_rules(h.backend) > 1
       THEN /\ fr_notices' = fr_notices \cup {"can not be migrated"}
            /\ FrReturn
       ELSE /\ fr_pc' = "internal_migrate"
            /\ UNCHANGED <<fr_notices, fr_result>>
    /\ UNCHANGED <<fr_fixed, fr_remote, fr_target_pool, bs_remote,
                   backends_migration_handlers, fr_handler, fr_next, fr_run,
                   fr_calls>>

(* migrate_an_internal_regional_forwarding_rule, lines 116-122: a backend   *)
(* service used by two or more forwarding rules is not migrated.            *)
fr_internal_check ==
    /\ fr_pc = "internal_check"
    /\ UNCHANGED fr_others
    /\ IF \E h \in fr_handler : count_forwarding_rules(h.backend) > 1
       THEN /\ fr_notices' = fr_notices \cup {"can not be migrated"}
            /\ FrReturn
       ELSE /\ fr_pc' = "internal_delete"
            /\ UNCHANGED <<fr_notices, fr_result>>
    /\ UNCHANGED <<fr_fixed, fr_remote, fr_target_pool, bs_remote,
                   backends_migration_handlers, fr_handler, fr_next, fr_run,
                   fr_calls>>

(* migrate_an_internal_regional_forwarding_rule, lines 123-124.             *)
fr_internal_delete ==
    /\ fr_pc = "internal_delete"
    /\ UNCHANGED fr_others
    /\ FrIssue("delete_forwarding_rule", 0)
    /\ \/ /\ fr_remote # {}
          /\ fr_remote' = {}
          /\ fr_pc' = "internal_migrate"
          /\ UNCHANGED fr_result
       \/ /\ FrRaise("HttpError")
          /\ UNCHANGED fr_remote
    /\ UNCHANGED <<fr_fixed, fr_target_pool, bs_remote,
                   backends_migration_handlers, fr_handler, fr_next, fr_run,
                   fr_notices>>

(* migrate_an_internal_regional_forwarding_rule, lines 125-126.             *)
fr_internal_migrate ==
    /\ fr_pc = "internal_migrate"
    /\ UNCHANGED fr_others
    /\ \E h \in fr_handler :
          \/ /\ BackendServiceMigration(h, TRUE)
             /\ fr_pc' = "internal_insert"
          \/ /\ BackendServiceMigration(h, FALSE)
             /\ fr_pc' = "idle"
    /\ UNCHANGED <<fr_fixed, fr_remote, fr_target_pool,
                   backends_migration_handlers, fr_handler, fr_next, fr_run,
                   fr_notices>>

(* migrate_an_internal_regional_forwarding_rule, lines 127-129.             *)
fr_internal_insert ==
    /\ fr_pc = "internal_insert"
    /\ UNCHANGED fr_others
    /\ FrIssue("insert_forwarding_rule", 0)
    /\ \/ /\ fr_remote = {}
          /\ fr_remote' = {fr_new_configs}
          /\ FrReturn
       \/ /\ FrRaise("HttpError")
          /\ fr_remote' \in {fr_remote, {fr_new_configs}}
    /\ UNCHANGED <<fr_fixed, fr_target_pool, bs_remote,
                   backends_migration_handlers, fr_handler, fr_next, fr_run,
                   fr_notices>>

(* The two loops merged: each handler is run as soon as it is built.        *)
fr_global_build_migrating_at_once ==
    /\ fr_pc = "global_build"
    /\ fr_next <= Len(fr_backends)
    /\ UNCHANGED fr_others
    /\ IF BackendServiceHandlers(fr_backends[fr_next]) = {}
       THEN /\ FrRaise("HttpError")
            /\ UNCHANGED <<backends_migration_handlers, fr_next, bs_remote, fr_calls>>
       ELSE /\ \E h \in BackendServiceHandlers(fr_backends[fr_next]) :
                  /\ backends_migration_handlers' =
                        Append(backends_migration_handlers, h)
                  /\ \/ /\ BackendServiceMigration(h, TRUE)
                        /\ UNCHANGED fr_pc
                     \/ /\ BackendServiceMigration(h, FALSE)
                        /\ fr_pc' = "idle"
            /\ fr_next' = fr_next + 1
    /\ UNCHANGED <<fr_fixed, fr_remote, fr_target_pool, fr_handler, fr_run,
                   fr_notices>>

(* migrate_a_global_forwarding_rule, lines 144-150: one handler is built    *)
(* and saved per backend service.                                           *)
fr_global_build ==
    /\ fr_pc = "global_build"
    /\ fr_next <= Len(fr_backends)
    /\ UNCHANGED fr_others
    /\ IF BackendServiceHandlers(fr_backends[fr_next]) = {}
       THEN /\ FrRaise("HttpError")
            /\ UNCHANGED <<backends_migration_handlers, fr_next>>
       ELSE /\ \E h \in BackendServiceHandlers(fr_backends[fr_next]) :
                  backends_migration_handlers' =
                      Append(backends_migration_handlers, h)
            /\ fr_next' = fr_next + 1
            /\ UNCHANGED <<fr_pc, fr_result>>
    /\ UNCHANGED <<fr_fixed, fr_remote, fr_target_pool, bs_remote, fr_handler,
                   fr_run, fr_calls, fr_notices>>

(* migrate_a_global_forwarding_rule, lines 141-143 and 152: the notice for  *)
(* an empty list, and the start of the loop over the saved handlers.        *)
fr_global_built ==
    /\ fr_pc = "global_build"
    /\ fr_next > Len(fr_backends)
    /\ UNCHANGED fr_others
    /\ fr_notices' = IF fr_backends = <<>>
                     THEN fr_notices \cup {"No backends need to be migrated"}
                     ELSE fr_notices
    /\ fr_pc' = "global_migrate"
    /\ fr_next' = 1
    /\ UNCHANGED <<fr_fixed, fr_remote, fr_target_pool, bs_remote,
                   backends_migration_handlers, fr_handler, fr_run, fr_calls,
                   fr_result>>

(* The loop over the saved handlers that goes on after a handler failed.    *)
fr_global_migrate_continuing ==
    /\ fr_pc = "global_migrate"
    /\ fr_next <= Len(backends_migration_handlers)
    /\ UNCHANGED fr_others
    /\ \/ BackendServiceMigration(backends_migration_handlers[fr_next], TRUE)
       \/ BackendServiceMigration(backends_migration_handlers[fr_next], FALSE)
    /\ fr_next' = fr_next + 1
    /\ UNCHANGED fr_pc
    /\ UNCHANGED <<fr_fixed, fr_remote, fr_target_pool,
                   backends_migration_handlers, fr_handler, fr_run, fr_notices>>

(* migrate_a_global_forwarding_rule, lines 152-153: the saved handlers are  *)
(* run one after the other; the forwarding rule itself is left alone.       *)
fr_global_migrate ==
    /\ fr_pc = "global_migrate"
    /\ fr_next <= Len(backends_migration_handlers)
    /\ UNCHANGED fr_others
    /\ \/ /\ BackendServiceMigration(backends_migration_handlers[fr_next], TRUE)
          /\ fr_next' = fr_next + 1
          /\ UNCHANGED fr_pc
       \/ /\ BackendServiceMigration(backends_migration_handlers[fr_next], FALSE)
          /\ fr_pc' = "idle"
          /\ UNCHANGED fr_next
    /\ UNCHANGED <<fr_fixed, fr_remote, fr_target_pool,
                   backends_migration_handlers, fr_handler, fr_run, fr_notices>>

(* migrate_a_global_forwarding_rule returns when the loop is over.          *)
fr_global_return ==
    /\ fr_pc = "global_migrate"
    /\ fr_next > Len(backends_migration_handlers)
    /\ UNCHANGED fr_others
    /\ FrReturn
    /\ UNCHANGED <<fr_fixed, fr_remote, fr_target_pool, bs_remote,
                   backends_migration_handlers, fr_handler, fr_next, fr_run,
                   fr_calls, fr_notices>>

(* rollback() that runs the rollback of every saved backend handler, each  *)
(* handler putting its group back to the configs it was built from.         *)
fr_rollback_cascading ==
    /\ fr_pc = "idle"
    /\ UNCHANGED fr_others
    /\ fr_op' = "rollback"
    /\ fr_result' = "returned"
    /\ fr_calls' = <<>>
    /\ fr_notices' = {"Rollback has been finished."}
    /\ bs_group' =
          [b \in Backends |->
              IF \E k \in 1..Len(backends_migration_handlers) :
                     /\ backends_migration_handlers[k].backend = b
                     /\ backends_migration_handlers[k].kind = "backend_service"
              THEN {backends_migration_handlers[
                        CHOOSE k \in 1..Len(backends_migration_handlers) :
                            /\ backends_migration_handlers[k].backend = b
                            /\ backends_migration_handlers[k].kind = "backend_service"
                        ].configs}
              ELSE bs_group[b]]
    /\ UNCHANGED <<fr_fixed, fr_remote, fr_target_pool, bs_templates, bs_migrations,
                   fr_pc, backends_migration_handlers, fr_handler, fr_next,
                   fr_invocations>>

(* rollback(): the three rollback procedures are empty.                     *)
fr_rollback ==
    /\ fr_pc = "idle"
    /\ UNCHANGED fr_others
    /\ fr_op' = "rollback"
    /\ fr_result' = "returned"
    /\ fr_calls' = <<>>
    /\ fr_notices' = {"Rollback has been finished."}
    /\ UNCHANGED <<fr_fixed, fr_remote, fr_target_pool, bs_remote, fr_pc,
                   backends_migration_handlers, fr_handler, fr_next,
                   fr_invocations>>

NextFR ==
    \/ fr_network_migration
    \/ fr_external_build
    \/ fr_external_migrate
    \/ fr_internal_build
    \/ fr_internal_check
    \/ fr_internal_delete
    \/ fr_internal_migrate
    \/ fr_internal_insert
    \/ fr_global_build
    \/ fr_global_built
    \/ fr_global_migrate
    \/ fr_global_return
    \/ fr_rollback

-----------------------------------------------------------------------------
(* TP: a target pool, its backends and the target pool's migration.         *)

PoolInstances == 1..MaxPoolInstances

Referrer(referenceType, referrer) ==
    [referenceType |-> referenceType, referrer |-> referrer]

\* what listReferrers can return for an instance of the pool
ReferrerItems ==
    { {},
      {Referrer("MEMBER_OF", "managed-group")},
      {Referrer("MEMBER_OF", "unmanaged-group")},
      {Referrer("ATTACHED_TO", "disk")} }

\* get_referrer_selfLinks() with the test on the reference type inverted
get_referrer_selfLinks_inverted(items) ==
    { reference.referrer :
          reference \in { r \in items : r.referenceType # "MEMBER_OF" } }

\* Instance.get_referrer_selfLinks(): the referrers the instance is a member of
get_referrer_selfLinks(items) ==
    { reference.referrer :
          reference \in { r \in items : r.referenceType = "MEMBER_OF" } }

tp_remote == <<tp_pool, tp_referrers, tp_group_target_pools, tp_unmanaged_group>>
tp_backends_state == <<tp_instance_subnetwork, tp_group, tp_group_templates>>

InitTP ==
    /\ \E n \in 1..MaxPoolInstances : tp_pool = [i \in 1..n |-> i]
    /\ \E items \in [PoolInstances -> ReferrerItems] :
          /\ \A i \in PoolInstances : i > Len(tp_pool) => items[i] = {}
          /\ tp_referrers = items
    /\ \E net \in NetworkSettings :
          /\ tp_instance_subnetwork = [i \in PoolInstances |-> net[2]]
          /\ tp_group_templates = {Template(FirstTemplateName, net, "props-b")}
          /\ tp_unmanaged_group = UnmanagedGroupConfigs(net, "props-a")
    /\ tp_group = {GroupConfigs(FirstTemplateName, "props-a")}
    /\ tp_group_target_pools \in {{}, {"pool"}}
    /\ tp_pc = "idle"
    /\ tp_instance_handlers = <<>>
    /\ tp_group_handlers = <<>>
    /\ tp_next = 1
    /\ tp_result = "none"
    /\ tp_calls = <<>>
    /\ tp_api_failed = FALSE

OffTP ==
    /\ tp_pool = <<>>
    /\ tp_referrers = [i \in PoolInstances |-> {}]
    /\ tp_instance_subnetwork = [i \in PoolInstances |-> Deleted]
    /\ tp_group_templates = {}
    /\ tp_unmanaged_group = UnmanagedGroupConfigs(<<LegacyNetwork, NoSubnetwork>>, "props-a")
    /\ tp_group = {}
    /\ tp_group_target_pools = {}
    /\ tp_pc = "off"
    /\ tp_instance_handlers = <<>>
    /\ tp_group_handlers = <<>>
    /\ tp_next = 1
    /\ tp_result = "none"
    /\ tp_calls = <<>>
    /\ tp_api_failed = FALSE

TpRaise(error) ==
    /\ tp_pc' = "idle"
    /\ tp_result' = error

(* The migration of a target pool starts by enumerating its backends.       *)
tp_network_migration ==
    /\ tp_pc = "idle"
    /\ tp_result = "none"
    /\ UNCHANGED tp_others
    /\ tp_pc' = "enumerate"
    /\ tp_result' = "running"
    /\ tp_next' = 1
    /\ UNCHANGED <<tp_remote, tp_backends_state, tp_instance_handlers,
                   tp_group_handlers, tp_calls, tp_api_failed>>

(* One backend instance is classified: a member of an unmanaged group ends  *)
(* the run with AmbiguousTargetResource, a member of a managed group makes  *)
(* that group a backend, any other instance is a backend of its own.        *)
tp_enumerate ==
    /\ tp_pc = "enumerate"
    /\ tp_next <= Len(tp_pool)
    /\ UNCHANGED tp_others
    /\ LET links == get_referrer_selfLinks(tp_referrers[tp_pool[tp_next]])
       IN  IF "unmanaged-group" \in links
           THEN /\ TpRaise("AmbiguousTargetResource")
                /\ UNCHANGED <<tp_instance_handlers, tp_group_handlers, tp_next>>
           ELSE IF "managed-group" \in links
           THEN /\ tp_group_handlers' =
                     IF \E k \in 1..Len(tp_group_handlers) :
                            tp_group_handlers[k] = "managed-group"
                     THEN tp_group_handlers
                     ELSE Append(tp_group_handlers, "managed-group")
                /\ tp_next' = tp_next + 1
                /\ UNCHANGED <<tp_instance_handlers, tp_pc, tp_result>>
           ELSE /\ tp_instance_handlers' =
                     Append(tp_instance_handlers, tp_pool[tp_next])
                /\ tp_next' = tp_next + 1
                /\ UNCHANGED <<tp_group_handlers, tp_pc, tp_result>>
    /\ UNCHANGED <<tp_remote, tp_backends_state, tp_calls, tp_api_failed>>

(* The enumeration is over: the managed groups are migrated first.          *)
tp_enumerated ==
    /\ tp_pc = "enumerate"
    /\ tp_next > Len(tp_pool)
    /\ UNCHANGED tp_others
    /\ tp_pc' = "migrate_groups"
    /\ tp_next' = 1
    /\ UNCHANGED <<tp_remote, tp_backends_state, tp_instance_handlers,
                   tp_group_handlers, tp_result, tp_calls, tp_api_failed>>

(* A managed group backend is migrated by the managed group's handler:      *)
(* network_migration(), lines 84-90, refuses a group that serves a target   *)
(* pool before any other step; else the steps of lines 97-140 run.          *)
tp_migrate_group ==
    /\ tp_pc = "migrate_groups"
    /\ tp_next <= Len(tp_group_handlers)
    /\ UNCHANGED tp_others
    /\ IF tp_group_target_pools # {}
       THEN /\ TpRaise("MigrationFailed")
            /\ UNCHANGED <<tp_backends_state, tp_next, tp_calls, tp_api_failed>>
       ELSE \E configs \in tp_group :
            \E outcome \in network_migration_outcomes(
                               configs, tp_group, tp_group_templates) :
               /\ tp_group' = outcome.group
               /\ tp_group_templates' = outcome.templates
               /\ tp_calls' = Append(tp_calls, <<"migrate_group", 0>>)
               /\ UNCHANGED tp_instance_subnetwork
               /\ IF outcome.result = "returned"
                  THEN /\ tp_next' = tp_next + 1
                       /\ UNCHANGED <<tp_pc, tp_result, tp_api_failed>>
                  ELSE /\ TpRaise(outcome.result)
                       /\ tp_api_failed' = TRUE
                       /\ UNCHANGED tp_next
    /\ UNCHANGED <<tp_remote, tp_instance_handlers, tp_group_handlers>>

(* The groups are done: the single instances follow.                        *)
tp_groups_migrated ==
    /\ tp_pc = "migrate_groups"
    /\ tp_next > Len(tp_group_handlers)
    /\ UNCHANGED tp_others
    /\ tp_pc' = "migrate_instances"
    /\ tp_next' = 1
    /\ UNCHANGED <<tp_remote, tp_backends_state, tp_instance_handlers,
                   tp_group_handlers, tp_result, tp_calls, tp_api_failed>>

(* A single instance backend is migrated by the instance procedure:         *)
(* nothing is done for an instance already on the target subnet; else the   *)
(* instance is deleted and created again, and a refused call ends the run.  *)
tp_migrate_instance ==
    /\ tp_pc = "migrate_instances"
    /\ tp_next <= Len(tp_instance_handlers)
    /\ UNCHANGED tp_others
    /\ LET instance == tp_instance_handlers[tp_next]
       IN  IF compare_original_network_and_target_network(
                  tp_instance_subnetwork[instance], TargetSubnetwork)
           THEN /\ tp_next' = tp_next + 1
                /\ UNCHANGED <<tp_instance_subnetwork, tp_calls, tp_pc, tp_result,
                               tp_api_failed>>
           ELSE /\ tp_calls' = Append(tp_calls, <<"migrate_instance", instance>>)
                /\ \/ /\ tp_instance_subnetwork' =
                            [tp_instance_subnetwork EXCEPT ![instance] = TargetSubnetwork]
                      /\ tp_next' = tp_next + 1
                      /\ UNCHANGED <<tp_pc, tp_result, tp_api_failed>>
                   \/ /\ tp_instance_subnetwork' \in
                            { tp_instance_subnetwork,
                              [tp_instance_subnetwork EXCEPT ![instance] = Deleted] }
                      /\ TpRaise("ZoneOperationsError")
                      /\ tp_api_failed' = TRUE
                      /\ UNCHANGED tp_next
    /\ UNCHANGED <<tp_remote, tp_group, tp_group_templates, tp_instance_handlers,
                   tp_group_handlers>>

(* Every backend is migrated: the pool itself is left as it is.             *)
tp_return ==
    /\ tp_pc = "migrate_instances"
    /\ tp_next > Len(tp_instance_handlers)
    /\ UNCHANGED tp_others
    /\ tp_pc' = "idle"
    /\ tp_result' = "returned"
    /\ UNCHANGED <<tp_remote, tp_backends_state, tp_instance_handlers,
                   tp_group_handlers, tp_next, tp_calls, tp_api_failed>>

NextTP ==
    \/ tp_network_migration
    \/ tp_enumerate
    \/ tp_enumerated
    \/ tp_migrate_group
    \/ tp_groups_migrated
    \/ tp_migrate_instance
    \/ tp_return

-----------------------------------------------------------------------------
(* OW: wait_for_zone_operation and wait_for_region_operation.               *)

OperationStatuses == <<"PENDING", "RUNNING", "DONE">>

ErrorPayloads == {"QUOTA_EXCEEDED", "RESOURCE_NOT_FOUND"}

\* the record operations().get() returns: 'error' is there only when DONE
OperationRecord ==
    [status |-> ow_status, error |-> IF ow_status = "DONE" THEN ow_error ELSE {}]

InitOW ==
    /\ ow_pc = "idle"
    /\ ow_scope \in {"zone", "region"}
    /\ ow_status \in {"PENDING", "RUNNING", "DONE"}
    /\ ow_error \in {{}} \cup {{e} : e \in ErrorPayloads}
    /\ ow_result = "none"
    /\ ow_returned = {}
    /\ ow_polls = 0
    /\ ow_printed = <<>>

OffOW ==
    /\ ow_pc = "off"
    /\ ow_scope = "zone"
    /\ ow_status = "DONE"
    /\ ow_error = {}
    /\ ow_result = "none"
    /\ ow_returned = {}
    /\ ow_polls = 0
    /\ ow_printed = <<>>

\* the waiter is called: 'Waiting ...' is printed
ow_wait ==
    /\ ow_pc = "idle"
    /\ UNCHANGED ow_others
    /\ ow_pc' = "polling"
    /\ ow_printed' = Append(ow_printed, "Waiting ...")
    /\ UNCHANGED <<ow_scope, ow_status, ow_error, ow_result, ow_returned, ow_polls>>

\* the remote operation goes on while the waiter sleeps
ow_operation_progress ==
    /\ ow_pc = "polling"
    /\ ow_status # "DONE"
    /\ UNCHANGED ow_others
    /\ ow_status' = IF ow_status = "PENDING" THEN "RUNNING" ELSE "DONE"
    /\ UNCHANGED <<ow_pc, ow_scope, ow_error, ow_result, ow_returned, ow_polls,
                   ow_printed>>

(* The zone waiter with a limit on its polls: after MaxPolls turns it       *)
(* returns the record of the operation as it is.                            *)
wait_for_zone_operation_giving_up ==
    /\ ow_pc = "polling"
    /\ ow_scope = "zone"
    /\ UNCHANGED ow_others
    /\ \/ /\ ow_pc' = "done"
          /\ ow_result' = "HttpError"
          /\ UNCHANGED <<ow_returned, ow_polls, ow_printed>>
       \/ LET result == OperationRecord
          IN  IF result.status = "DONE"
              THEN /\ ow_printed' = Append(ow_printed, "The current operation is done.")
                   /\ ow_pc' = "done"
                   /\ UNCHANGED ow_polls
                   /\ IF result.error # {}
                      THEN /\ ow_result' = "ZoneOperationsError"
                           /\ UNCHANGED ow_returned
                      ELSE /\ ow_result' = "returned"
                           /\ ow_returned' = {result}
              ELSE IF ow_polls < MaxPolls
              THEN /\ ow_polls' = ow_polls + 1
                   /\ UNCHANGED <<ow_pc, ow_result, ow_returned, ow_printed>>
              ELSE /\ ow_pc' = "done"
                   /\ ow_result' = "returned"
                   /\ ow_returned' = {result}
                   /\ UNCHANGED <<ow_polls, ow_printed>>
    /\ UNCHANGED <<ow_scope, ow_status, ow_error>>

(* wait_for_zone_operation, one turn of the loop: the operation is read; a  *)
(* DONE operation with an 'error' raises ZoneOperationsError, one without   *)
(* is returned; else the waiter sleeps.  The read itself may raise.         *)
wait_for_zone_operation ==
    /\ ow_pc = "polling"
    /\ ow_scope = "zone"
    /\ UNCHANGED ow_others
    /\ \/ /\ ow_pc' = "done"
          /\ ow_result' = "HttpError"
          /\ UNCHANGED <<ow_returned, ow_polls, ow_printed>>
       \/ LET result == OperationRecord
          IN  IF result.status = "DONE"
              THEN /\ ow_printed' = Append(ow_printed, "The current operation is done.")
                   /\ ow_pc' = "done"
                   /\ UNCHANGED ow_polls
                   /\ IF result.error # {}
                      THEN /\ ow_result' = "ZoneOperationsError"
                           /\ UNCHANGED ow_returned
                      ELSE /\ ow_result' = "returned"
                           /\ ow_returned' = {result}
              ELSE /\ ow_polls < MaxPolls
                   /\ ow_polls' = ow_polls + 1
                   /\ UNCHANGED <<ow_pc, ow_result, ow_returned, ow_printed>>
    /\ UNCHANGED <<ow_scope, ow_status, ow_error>>

(* wait_for_region_operation, one turn of the loop: as above, but for a     *)
(* DONE operation with an 'error' the error is printed (the raise is        *)
(* commented out) and the record is returned.                               *)
wait_for_region_operation ==
    /\ ow_pc = "polling"
    /\ ow_scope = "region"
    /\ UNCHANGED ow_others
    /\ \/ /\ ow_pc' = "done"
          /\ ow_result' = "HttpError"
          /\ UNCHANGED <<ow_returned, ow_polls, ow_printed>>
       \/ LET result == OperationRecord
          IN  IF result.status = "DONE"
              THEN /\ ow_printed' =
                         IF result.error # {}
                         THEN ow_printed \o <<"The current operation is done.",
                                              "Region operations error">>
                         ELSE Append(ow_printed, "The current operation is done.")
                   /\ ow_pc' = "done"
                   /\ ow_result' = "returned"
                   /\ ow_returned' = {result}
                   /\ UNCHANGED ow_polls
              ELSE /\ ow_polls < MaxPolls
                   /\ ow_polls' = ow_polls + 1
                   /\ UNCHANGED <<ow_pc, ow_result, ow_returned, ow_printed>>
    /\ UNCHANGED <<ow_scope, ow_status, ow_error>>

NextOW ==
    \/ ow_wait
    \/ ow_operation_progress
    \/ wait_for_zone_operation
    \/ wait_for_region_operation

-----------------------------------------------------------------------------
(* SN: SubnetNetwork, and the same validation at the start of main2.        *)
(* Names and links are strings, kept as sequences of pieces: a name is a    *)
(* sequence of characters, the other pieces of a link are whole.            *)

NameCharacters == {"a", "b"}

\* the sequences over `alphabet` of 1..n characters
RECURSIVE StringsUpTo(_, _)
StringsUpTo(alphabet, n) ==
    IF n = 0
    THEN {}
    ELSE LET shorter == StringsUpTo(alphabet, n - 1)
         IN  shorter \cup {<<c>> : c \in alphabet}
                     \cup {Append(w, c) : w \in shorter, c \in alphabet}

SubnetworkNames == StringsUpTo(NameCharacters, MaxNameLen)

Regions == {"region-1", "region-2"}

\* 'regions/' + self.region + '/subnetworks/' + self.subnetwork
SubnetworkLink(region, name) == <<"regions/", region, "/subnetworks/">> \o name

\* the url under which the network lists a subnetwork it declares
SubnetworkUrl(region, name) ==
    <<"https://www.googleapis.com/compute/v1/projects/project/">>
        \o SubnetworkLink(region, name)

\* Python's `a in b` on two strings: a is a run of consecutive pieces of b
IsSubstring(a, b) ==
    \E start \in 0..(Len(b) - Len(a)) :
        \A k \in 1..Len(a) : b[start + k] = a[k]

\* the sets of at most n of the elements of `universe`
RECURSIVE SetsUpTo(_, _)
SetsUpTo(universe, n) ==
    IF n = 0
    THEN {{}}
    ELSE LET smaller == SetsUpTo(universe, n - 1)
         IN  smaller \cup {S \cup {x} : S \in smaller, x \in universe}

InitSN ==
    /\ sn_pc = "idle"
    /\ sn_caller \in {"SubnetNetwork", "main2"}
    /\ sn_autoCreateSubnetworks \in {"absent", "true", "false"}
    /\ sn_has_subnetworks \in BOOLEAN
    /\ sn_subnetworks \in
          { {SubnetworkUrl(d[1], d[2]) : d \in D} :
                D \in SetsUpTo(Regions \X SubnetworkNames, MaxDeclared) }
    /\ ~sn_has_subnetworks => sn_subnetworks = {}
    /\ sn_caller = "main2" => (sn_subnetworks = {} /\ ~sn_has_subnetworks)
    /\ sn_region = "region-1"
    /\ sn_network = <<"a">>
    /\ sn_subnetwork \in {{}} \cup {{n} : n \in SubnetworkNames}
    /\ sn_requested = sn_subnetwork
    /\ sn_only_check_network_info \in BOOLEAN
    /\ sn_caller = "main2" => ~sn_only_check_network_info
    /\ sn_network_link = {}
    /\ sn_subnetwork_link = {}
    /\ sn_result = "none"

OffSN ==
    /\ sn_pc = "off"
    /\ sn_caller = "SubnetNetwork"
    /\ sn_autoCreateSubnetworks = "absent"
    /\ sn_has_subnetworks = FALSE
    /\ sn_subnetworks = {}
    /\ sn_region = "region-1"
    /\ sn_network = <<"a">>
    /\ sn_subnetwork = {}
    /\ sn_requested = {}
    /\ sn_only_check_network_info = FALSE
    /\ sn_network_link = {}
    /\ sn_subnetwork_link = {}
    /\ sn_result = "none"

sn_network_record == <<sn_autoCreateSubnetworks, sn_has_subnetworks, sn_subnetworks>>
sn_arguments == <<sn_caller, sn_region, sn_network, sn_requested,
                  sn_only_check_network_info>>

SnRaise(error) ==
    /\ sn_pc' = "done"
    /\ sn_result' = error

(* The validation with the network looked at only when no subnetwork is     *)
(* given: a subnetwork given is accepted for any network.                   *)
ValidateSubnetwork_only_without_subnetwork ==
    \/ /\ SnRaise("HttpError")
       /\ UNCHANGED sn_subnetwork
    \/ IF sn_subnetwork # {}
       THEN /\ sn_pc' = "validated"
            /\ UNCHANGED <<sn_subnetwork, sn_result>>
       ELSE IF sn_autoCreateSubnetworks = "absent"
       THEN /\ SnRaise("InvalidTargetNetworkError")
            /\ UNCHANGED sn_subnetwork
       ELSE IF sn_autoCreateSubnetworks # "true"
       THEN /\ SnRaise("MissingSubnetworkError")
            /\ UNCHANGED sn_subnetwork
       ELSE /\ sn_subnetwork' = {sn_network}
            /\ sn_pc' = "validated"
            /\ UNCHANGED sn_result

(* check_network_auto_mode, then the test on the subnetwork: what the two   *)
(* leave in self.subnetwork, or the error raised.                           *)
ValidateSubnetwork ==
    \/ /\ SnRaise("HttpError")
       /\ UNCHANGED sn_subnetwork
    \/ IF sn_autoCreateSubnetworks = "absent"
       THEN /\ SnRaise("InvalidTargetNetworkError")
            /\ UNCHANGED sn_subnetwork
       ELSE IF sn_subnetwork = {}
       THEN IF sn_autoCreateSubnetworks # "true"
            THEN /\ SnRaise("MissingSubnetworkError")
                 /\ UNCHANGED sn_subnetwork
            ELSE /\ sn_subnetwork' = {sn_network}
                 /\ sn_pc' = "validated"
                 /\ UNCHANGED sn_result
       ELSE /\ sn_pc' = "validated"
            /\ UNCHANGED <<sn_subnetwork, sn_result>>

\* SubnetNetwork.subnetwork_validation()
subnetwork_validation ==
    /\ sn_pc = "idle"
    /\ sn_caller = "SubnetNetwork"
    /\ UNCHANGED sn_others
    /\ ValidateSubnetwork
    /\ UNCHANGED <<sn_network_record, sn_arguments, sn_network_link,
                   sn_subnetwork_link>>

\* main2, the validation of the target network
main2_validation ==
    /\ sn_pc = "idle"
    /\ sn_caller = "main2"
    /\ UNCHANGED sn_others
    /\ ValidateSubnetwork
    /\ UNCHANGED <<sn_network_record, sn_arguments, sn_network_link,
                   sn_subnetwork_link>>

(* SubnetNetwork.generate_new_network_info(): the network's link is kept;   *)
(* unless only the network is asked for, the subnetwork's link is looked    *)
(* for among the urls the network lists, with Python's `in` on strings.     *)
generate_new_network_info ==
    /\ sn_pc \in {"idle", "validated"}
    /\ sn_caller = "SubnetNetwork"
    /\ UNCHANGED sn_others
    /\ \/ /\ SnRaise("HttpError")
          /\ UNCHANGED <<sn_network_link, sn_subnetwork_link>>
       \/ /\ sn_network_link' = {sn_network}
          /\ IF sn_only_check_network_info
             THEN /\ sn_pc' = "done"
                  /\ sn_result' = "returned"
                  /\ UNCHANGED sn_subnetwork_link
             ELSE IF sn_subnetwork = {}
             THEN /\ SnRaise("TypeError")
                  /\ UNCHANGED sn_subnetwork_link
             ELSE LET subnetwork_link ==
                          SubnetworkLink(sn_region, CHOOSE n \in sn_subnetwork : TRUE)
                  IN  IF ~sn_has_subnetworks
                      THEN /\ sn_subnetwork_link' = {}
                           /\ SnRaise("SubnetworkNotExists")
                      ELSE IF \E subnetwork \in sn_subnetworks :
                                  IsSubstring(subnetwork_link, subnetwork)
                      THEN /\ sn_subnetwork_link' = {subnetwork_link}
                           /\ sn_pc' = "done"
                           /\ sn_result' = "returned"
                      ELSE /\ SnRaise("SubnetworkNotExists")
                           /\ UNCHANGED sn_subnetwork_link
    /\ UNCHANGED <<sn_network_record, sn_arguments, sn_subnetwork>>

NextSN ==
    \/ subnetwork_validation
    \/ main2_validation
    \/ generate_new_network_info

-----------------------------------------------------------------------------
(* IGH: InstanceGroupHelper.build_instance_group.                           *)

\* the exceptions a lookup can raise
LookupErrors == {"HttpError 404", "HttpError 403", "socket.timeout"}

\* the 'description' of a group found in the zone, as pieces of text
Descriptions ==
    { <<>>,
      <<"web servers">>,
      <<"This instance group is controlled by ", "Instance Group Manager", " 'x'.">> }

Found(description) == [found |-> TRUE, description |-> {description}]
FoundWithoutDescription == [found |-> TRUE, description |-> {}]
NotFound(error) == [found |-> FALSE, error |-> error]

\* 'Instance Group Manager' in instance_group_configs['description']
HasManagerMarker(description) ==
    \E k \in 1..Len(description) : description[k] = "Instance Group Manager"

InstanceGroupObject(class, scope) ==
    [class |-> class, scope |-> scope,
     preserve_instance_ip |-> igh_preserve_instance_ip]

InitIGH ==
    /\ igh_pc = "zone_probe"
    /\ igh_zone_lookup \in {NotFound(e) : e \in LookupErrors}
                            \cup {Found(d) : d \in Descriptions}
                            \cup {FoundWithoutDescription}
    /\ igh_region_lookup \in {NotFound(e) : e \in LookupErrors}
                              \cup {FoundWithoutDescription}
    /\ igh_preserve_instance_ip \in BOOLEAN
    /\ igh_result = "none"
    /\ igh_handle = {}

OffIGH ==
    /\ igh_pc = "off"
    /\ igh_zone_lookup = FoundWithoutDescription
    /\ igh_region_lookup = FoundWithoutDescription
    /\ igh_preserve_instance_ip = FALSE
    /\ igh_result = "none"
    /\ igh_handle = {}

igh_inputs == <<igh_zone_lookup, igh_region_lookup, igh_preserve_instance_ip>>

(* The object is constructed and returned, or its constructor, which reads  *)
(* the group's configs, raises.                                             *)
IghConstruct(class, scope) ==
    /\ igh_pc' = "done"
    /\ \/ /\ igh_result' = "returned"
          /\ igh_handle' = {InstanceGroupObject(class, scope)}
       \/ /\ igh_result' = "HttpError"
          /\ UNCHANGED igh_handle

(* The probe in which a group found in the zone without the manager marker  *)
(* is looked for in the region as well.                                     *)
igh_zone_probe_falling_through ==
    /\ igh_pc = "zone_probe"
    /\ UNCHANGED igh_others
    /\ IF ~igh_zone_lookup.found
       THEN /\ igh_pc' = "region_probe"
            /\ UNCHANGED <<igh_result, igh_handle>>
       ELSE IF igh_zone_lookup.description = {}
       THEN /\ igh_pc' = "done"
            /\ igh_result' = "KeyError"
            /\ UNCHANGED igh_handle
       ELSE IF \E d \in igh_zone_lookup.description : ~HasManagerMarker(d)
       THEN /\ igh_pc' = "region_probe"
            /\ UNCHANGED <<igh_result, igh_handle>>
       ELSE IghConstruct("ZonalManagedInstanceGroup", "zone")
    /\ UNCHANGED igh_inputs

(* build_instance_group, lines 42-64: the group is looked for in the zone;  *)
(* any exception of the lookup is dropped; a group found is unmanaged or    *)
(* zonal managed by its description.                                        *)
igh_zone_probe ==
    /\ igh_pc = "zone_probe"
    /\ UNCHANGED igh_others
    /\ IF ~igh_zone_lookup.found
       THEN /\ igh_pc' = "region_probe"
            /\ UNCHANGED <<igh_result, igh_handle>>
       ELSE IF igh_zone_lookup.description = {}
       THEN /\ igh_pc' = "done"
            /\ igh_result' = "KeyError"
            /\ UNCHANGED igh_handle
       ELSE IF \E d \in igh_zone_lookup.description : ~HasManagerMarker(d)
       THEN IghConstruct("UnmanagedInstanceGroup", "zone")
       ELSE IghConstruct("ZonalManagedInstanceGroup", "zone")
    /\ UNCHANGED igh_inputs

(* The region lookup with its exception dropped like the zone lookup's:     *)
(* the method ends without an object and without an error.                  *)
igh_region_probe_swallowing ==
    /\ igh_pc = "region_probe"
    /\ UNCHANGED igh_others
    /\ IF ~igh_region_lookup.found
       THEN /\ igh_pc' = "done"
            /\ igh_result' = "returned"
            /\ UNCHANGED igh_handle
       ELSE IghConstruct("RegionalManagedInstanceGroup", "region")
    /\ UNCHANGED igh_inputs

(* build_instance_group, lines 65-76: the group is looked for in the        *)
(* region; the exception of the lookup is raised again as it is.            *)
igh_region_probe ==
    /\ igh_pc = "region_probe"
    /\ UNCHANGED igh_others
    /\ IF ~igh_region_lookup.found
       THEN /\ igh_pc' = "done"
            /\ igh_result' = igh_region_lookup.error
            /\ UNCHANGED igh_handle
       ELSE IghConstruct("RegionalManagedInstanceGroup", "region")
    /\ UNCHANGED igh_inputs

NextIGH ==
    \/ igh_zone_probe
    \/ igh_region_probe

-----------------------------------------------------------------------------
(* PIP: preserve_ip_addresses_handler, which derives the network interface  *)
(* of the recreated instance from the original one.                         *)

ExternalAddress == "34.0.0.7"
InternalAddress == "10.0.0.7"
AliasRange == "10.1.0.0/24"

\* a dict key that may be missing is a set: {} when missing, {value} when set;
\* 'accessConfigs' is a list of dicts when it is there
AccessConfigsValues ==
    { {},
      {<<>>},
      {<<[natIP |-> {}]>>},
      {<<[natIP |-> {ExternalAddress}]>>} }

NetworkInterfaces ==
    [network : {LegacyNetwork},
     subnetwork : {NoSubnetwork},
     accessConfigs : AccessConfigsValues,
     networkIP : {{}, {InternalAddress}},
     aliasIpRanges : {{}, {AliasRange}}]

\* how compute.addresses().insert followed by wait_for_region_operation ends:
\* both return, or the insert raises an HttpError whose reason says the
\* address 'already' exists, or one with another reason
ExternalReservations == {"returned", "HttpError already", "HttpError other"}
InternalReservations == {"returned", "HttpError"}

InitPIP ==
    /\ pip_pc = "enter"
    /\ pip_original_network_interface \in NetworkInterfaces
    /\ pip_new_network_interface = pip_original_network_interface
    /\ pip_preserve_external_ip \in BOOLEAN
    /\ pip_preserve_internal_ip \in BOOLEAN
    /\ pip_preserve_alias_ip_ranges \in BOOLEAN
    /\ pip_external_reservation = "none"
    /\ pip_internal_reservation = "none"
    /\ pip_printed = <<>>
    /\ pip_result = "none"

OffPIP ==
    /\ pip_pc = "off"
    /\ pip_original_network_interface =
           [network |-> LegacyNetwork, subnetwork |-> NoSubnetwork,
            accessConfigs |-> {}, networkIP |-> {}, aliasIpRanges |-> {}]
    /\ pip_new_network_interface = pip_original_network_interface
    /\ pip_preserve_external_ip = FALSE
    /\ pip_preserve_internal_ip = FALSE
    /\ pip_preserve_alias_ip_ranges = FALSE
    /\ pip_external_reservation = "none"
    /\ pip_internal_reservation = "none"
    /\ pip_printed = <<>>
    /\ pip_result = "none"

\* line 565, new_network_interface = original_network_interface: the two
\* names are bound to one dict, so what the handler does to the one shows in
\* the other
original_network_interface == pip_new_network_interface

pip_arguments == <<pip_original_network_interface, pip_preserve_external_ip, pip_preserve_internal_ip, pip_preserve_alias_ip_ranges>>

\* 'natIP' in new_network_interface['accessConfigs'][0], with the list there
HasNatIP(interface) ==
    \E configs \in interface.accessConfigs :
        /\ Len(configs) >= 1
        /\ configs[1].natIP # {}

(* preserve_ip_addresses_handler, lines 565-568: the interface is pointed   *)
(* at the target network and subnetwork.                                    *)
pip_enter ==
    /\ pip_pc = "enter"
    /\ UNCHANGED pip_others
    /\ pip_new_network_interface' =
           [pip_new_network_interface EXCEPT !.network = TargetNetwork,
                                             !.subnetwork = TargetSubnetwork]
    /\ pip_pc' = "external"
    /\ pip_result' = "running"
    /\ UNCHANGED <<pip_arguments, pip_external_reservation,
                   pip_internal_reservation, pip_printed>>

(* lines 569-603: with preserve_external_ip the address in                  *)
(* accessConfigs[0]['natIP'] is reserved as a static one; an HttpError of   *)
(* the reservation is printed and the interface is left as it is.  Without  *)
(* preserve_external_ip 'accessConfigs' is deleted.                         *)
pip_external ==
    /\ pip_pc = "external"
    /\ UNCHANGED pip_others
    /\ IF pip_preserve_external_ip
       THEN IF pip_new_network_interface.accessConfigs = {<<>>}
            THEN \* accessConfigs[0] of an empty list
                 /\ pip_pc' = "done"
                 /\ pip_result' = "IndexError"
                 /\ pip_printed' = Append(pip_printed, "Preserving the external IP address")
                 /\ UNCHANGED <<pip_new_network_interface, pip_external_reservation>>
            ELSE IF ~HasNatIP(pip_new_network_interface)
            THEN /\ pip_pc' = "internal"
                 /\ pip_printed' = Append(pip_printed, "Preserving the external IP address")
                 /\ UNCHANGED <<pip_new_network_interface, pip_external_reservation, pip_result>>
            ELSE \E outcome \in ExternalReservations :
                 /\ pip_external_reservation' = outcome
                 /\ pip_printed' = pip_printed \o
                        <<"Preserving the external IP address">> \o
                        (CASE outcome = "returned" ->
                                <<"The external IP address is preserved as a static IP address.">>
                           [] outcome = "HttpError already" ->
                                <<"already">>
                           [] OTHER ->
                                <<"Failed to preserve the external IP address as a static IP:",
                                  "A new external IP address will be assigned.">>)
                 /\ pip_pc' = "internal"
                 /\ UNCHANGED <<pip_new_network_interface, pip_result>>
       ELSE /\ pip_new_network_interface' =
                   [pip_new_network_interface EXCEPT !.accessConfigs = {}]
            /\ pip_pc' = "internal"
            /\ UNCHANGED <<pip_external_reservation, pip_printed, pip_result>>
    /\ UNCHANGED <<pip_arguments, pip_internal_reservation>>

(* lines 605-628: with preserve_internal_ip the address in 'networkIP' is   *)
(* reserved as a static one; on an HttpError of the reservation 'networkIP' *)
(* is deleted.  Without preserve_internal_ip 'networkIP' is deleted.        *)
pip_internal ==
    /\ pip_pc = "internal"
    /\ UNCHANGED pip_others
    /\ IF pip_preserve_internal_ip
       THEN IF pip_new_network_interface.networkIP = {}
            THEN /\ pip_printed' = Append(pip_printed, "Preserving the internal IP address")
                 /\ UNCHANGED <<pip_new_network_interface, pip_internal_reservation>>
            ELSE \E outcome \in InternalReservations :
                 /\ pip_internal_reservation' = outcome
                 /\ IF outcome = "HttpError"
                    THEN /\ pip_printed' = pip_printed \o
                                <<"Preserving the internal IP address",
                                  "Failed to preserve the internal IP:",
                                  "A new internal IP will be assigned.">>
                         /\ pip_new_network_interface' =
                                [pip_new_network_interface EXCEPT !.networkIP = {}]
                    ELSE /\ pip_printed' = Append(pip_printed, "Preserving the internal IP address")
                         /\ UNCHANGED pip_new_network_interface
       ELSE /\ pip_new_network_interface' =
                   [pip_new_network_interface EXCEPT !.networkIP = {}]
            /\ UNCHANGED <<pip_internal_reservation, pip_printed>>
    /\ pip_pc' = "alias"
    /\ UNCHANGED <<pip_arguments, pip_external_reservation, pip_result>>

(* lines 630-634: 'aliasIpRanges' is kept with preserve_alias_ip_ranges and *)
(* deleted without it, and the interface is returned.                       *)
pip_return ==
    /\ pip_pc = "alias"
    /\ UNCHANGED pip_others
    /\ pip_new_network_interface' =
           IF pip_preserve_alias_ip_ranges
           THEN pip_new_network_interface
           ELSE [pip_new_network_interface EXCEPT !.aliasIpRanges = {}]
    /\ pip_pc' = "done"
    /\ pip_result' = "returned"
    /\ UNCHANGED <<pip_arguments, pip_external_reservation,
                   pip_internal_reservation, pip_printed>>

NextPIP ==
    \/ pip_enter
    \/ pip_external
    \/ pip_internal
    \/ pip_return

-----------------------------------------------------------------------------
(* MEM: add_an_instance, remove_an_instance and add_all_instances of        *)
(* UnmanagedInstanceGroup.                                                  *)

\* the reason of an HttpError, as the words of its text
AlreadyAMemberOf == <<"already", "a", "member", "of">>
IsNotAMemberOf == <<"is", "not", "a", "member", "of">>

AlreadyMemberReason == <<"resource">> \o AlreadyAMemberOf \o <<"group">>
NotMemberReason == <<"resource">> \o IsNotAMemberOf \o <<"group">>
OtherReasons ==
    { <<"resource", "is", "not", "ready">>,
      <<"resource", "already", "exists">>,
      <<"quota", "exceeded">> }

HttpError(reason) == [error |-> "HttpError", reason |-> reason]
Done == [error |-> "none", reason |-> <<>>]
WaiterError == [error |-> "ZoneOperationsError", reason |-> <<>>]

\* what instanceGroups().addInstances and the wait on it can answer
AddResponses(instance) ==
    IF instance \in mem_remote_members
    THEN {HttpError(AlreadyMemberReason)}
    ELSE {Done, WaiterError, HttpError(NotMemberReason)}
             \cup {HttpError(r) : r \in OtherReasons}

\* what instanceGroups().removeInstances and the wait on it can answer
RemoveResponses(instance) ==
    IF instance \notin mem_remote_members
    THEN {HttpError(NotMemberReason)}
    ELSE {Done, WaiterError, HttpError(AlreadyMemberReason)}
             \cup {HttpError(r) : r \in OtherReasons}

(* add_an_instance, lines 144-160: "returned" with or without a warning, or *)
(* the error that leaves the method.                                        *)
mem_add_an_instance(response) ==
    IF response.error = "HttpError"
    THEN IF IsSubstring(AlreadyAMemberOf, response.reason)
         THEN [result |-> "returned", warning |-> <<response.reason>>]
         ELSE [result |-> "HttpError", warning |-> <<>>]
    ELSE IF response.error = "none"
    THEN [result |-> "returned", warning |-> <<>>]
    ELSE [result |-> response.error, warning |-> <<>>]

(* remove_an_instance with the test of the reason left out: every          *)
(* HttpError is raised again.                                               *)
remove_an_instance_raising_all(response) ==
    IF response.error = "HttpError"
    THEN [result |-> "HttpError", warning |-> <<>>]
    ELSE IF response.error = "none"
    THEN [result |-> "returned", warning |-> <<>>]
    ELSE [result |-> response.error, warning |-> <<>>]

(* remove_an_instance, lines 172-188.                                       *)
remove_an_instance(response) ==
    IF response.error = "HttpError"
    THEN IF IsSubstring(IsNotAMemberOf, response.reason)
         THEN [result |-> "returned", warning |-> <<response.reason>>]
         ELSE [result |-> "HttpError", warning |-> <<>>]
    ELSE IF response.error = "none"
    THEN [result |-> "returned", warning |-> <<>>]
    ELSE [result |-> response.error, warning |-> <<>>]

InitMEM ==
    /\ mem_pc = "idle"
    /\ mem_op = "none"
    /\ \E n \in 0..MaxMembers :
          /\ mem_instance_selfLinks = [i \in 1..n |-> i]
          /\ mem_remote_members \in SUBSET (1..n)
    /\ mem_next = 1
    /\ mem_result = "none"
    /\ mem_responses = <<>>
    /\ mem_warnings = <<>>
    /\ mem_invocations = 0

OffMEM ==
    /\ mem_pc = "off"
    /\ mem_op = "none"
    /\ mem_instance_selfLinks = <<>>
    /\ mem_remote_members = {}
    /\ mem_next = 1
    /\ mem_result = "none"
    /\ mem_responses = <<>>
    /\ mem_warnings = <<>>
    /\ mem_invocations = 0

(* add_all_instances is called.                                             *)
mem_add_all_instances ==
    /\ mem_pc = "idle"
    /\ mem_invocations < MaxMembershipCalls
    /\ UNCHANGED mem_others
    /\ mem_op' = "add_all_instances"
    /\ mem_pc' = "adding"
    /\ mem_next' = 1
    /\ mem_result' = "running"
    /\ mem_responses' = <<>>
    /\ mem_warnings' = <<>>
    /\ mem_invocations' = mem_invocations + 1
    /\ UNCHANGED <<mem_instance_selfLinks, mem_remote_members>>

(* add_all_instances, lines 194-199, one turn of the loop: add_an_instance  *)
(* on the next self-link; an HttpError that leaves it is raised as          *)
(* AddInstanceToInstanceGroupError, any other error as it is.               *)
add_all_instances ==
    /\ mem_pc = "adding"
    /\ mem_next <= Len(mem_instance_selfLinks)
    /\ UNCHANGED mem_others
    /\ \E response \in AddResponses(mem_instance_selfLinks[mem_next]) :
          LET outcome == mem_add_an_instance(response)
          IN  /\ mem_responses' = Append(mem_responses, response)
              /\ mem_warnings' = mem_warnings \o outcome.warning
              /\ mem_remote_members' =
                    IF response.error = "none"
                    THEN mem_remote_members \cup {mem_instance_selfLinks[mem_next]}
                    ELSE mem_remote_members
              /\ IF outcome.result = "returned"
                 THEN /\ mem_next' = mem_next + 1
                      /\ UNCHANGED <<mem_pc, mem_result>>
                 ELSE /\ mem_pc' = "idle"
                      /\ mem_result' = IF outcome.result = "HttpError"
                                       THEN "AddInstanceToInstanceGroupError"
                                       ELSE outcome.result
                      /\ UNCHANGED mem_next
    /\ UNCHANGED <<mem_op, mem_instance_selfLinks, mem_invocations>>

(* add_all_instances returns when the loop is over.                         *)
mem_add_all_return ==
    /\ mem_pc = "adding"
    /\ mem_next > Len(mem_instance_selfLinks)
    /\ UNCHANGED mem_others
    /\ mem_pc' = "idle"
    /\ mem_result' = "returned"
    /\ UNCHANGED <<mem_op, mem_instance_selfLinks, mem_remote_members, mem_next,
                   mem_responses, mem_warnings, mem_invocations>>

(* remove_an_instance is called on one of the listed members.               *)
mem_remove_an_instance ==
    /\ mem_pc = "idle"
    /\ mem_invocations < MaxMembershipCalls
    /\ UNCHANGED mem_others
    /\ \E k \in 1..Len(mem_instance_selfLinks) :
       \E response \in RemoveResponses(mem_instance_selfLinks[k]) :
          LET outcome == remove_an_instance(response)
          IN  /\ mem_op' = "remove_an_instance"
              /\ mem_next' = k
              /\ mem_responses' = <<response>>
              /\ mem_warnings' = outcome.warning
              /\ mem_result' = outcome.result
              /\ mem_remote_members' =
                    IF response.error = "none"
                    THEN mem_remote_members \ {mem_instance_selfLinks[k]}
                    ELSE mem_remote_members
    /\ mem_invocations' = mem_invocations + 1
    /\ UNCHANGED <<mem_pc, mem_instance_selfLinks>>

NextMEM ==
    \/ mem_add_all_instances
    \/ add_all_instances
    \/ mem_add_all_return
    \/ mem_remove_an_instance

-----------------------------------------------------------------------------
(* INS: Instance.get_new_instance_configs and the two methods it calls.     *)

\* an entry of 'accessConfigs': its 'natIP' ({} when the key is missing) and
\* the other keys it has
AccessConfig(natIP, type) == [natIP |-> natIP, type |-> type]
EmptyDict == AccessConfig({}, {})

\* 'accessConfigs' of an interface: {} when the key is missing, else {the list}
InstanceAccessConfigs ==
    { {},
      {<<>>},
      {<<AccessConfig({}, {"ONE_TO_ONE_NAT"})>>},
      {<<AccessConfig({ExternalAddress}, {"ONE_TO_ONE_NAT"})>>} }

InstanceInterfaces ==
    [network : {LegacyNetwork},
     subnetwork : {NoSubnetwork},
     accessConfigs : InstanceAccessConfigs,
     networkIP : {{}, {InternalAddress}},
     aliasIpRanges : {{}, {AliasRange}}]

SecondInterface ==
    [network |-> LegacyNetwork, subnetwork |-> NoSubnetwork,
     accessConfigs |-> {}, networkIP |-> {"10.0.9.9"}, aliasIpRanges |-> {}]

InstanceConfigs ==
    { [name |-> "instance", other |-> other, networkInterfaces |-> interfaces] :
          other \in OtherFields,
          interfaces \in {<<i>> : i \in InstanceInterfaces}
                             \cup {<<i, SecondInterface>> : i \in InstanceInterfaces} }

AddressObjects == {{}} \cup {{[external_ip |-> e]} : e \in {{}, {ExternalAddress}}}

(* modify_instance_configs_with_external_ip without its last statement:     *)
(* 'networkIP' is left in the interface.                                    *)
modify_instance_configs_with_external_ip_keeping_networkIP(external_ip, instance_configs) ==
    LET interface == instance_configs.networkInterfaces[1]
        with_ip ==
            IF external_ip = {}
            THEN IF interface.accessConfigs = {}
                 THEN interface
                 ELSE [interface EXCEPT !.accessConfigs =
                          {[configs EXCEPT ![1].natIP = {}] : configs \in @}]
            ELSE [interface EXCEPT !.accessConfigs =
                     {[configs EXCEPT ![1].natIP = external_ip] :
                          configs \in IF @ = {} THEN {<<EmptyDict>>} ELSE @}]
    IN  [instance_configs EXCEPT !.networkInterfaces[1] = with_ip]

(* modify_instance_configs_with_external_ip, lines 255-285, as the value    *)
(* the configs have after the call.  It is applied to configs whose         *)
(* 'accessConfigs', when there, has an entry.                               *)
modify_instance_configs_with_external_ip(external_ip, instance_configs) ==
    LET interface == instance_configs.networkInterfaces[1]
        with_ip ==
            IF external_ip = {}
            THEN IF interface.accessConfigs = {}
                 THEN interface
                 ELSE [interface EXCEPT !.accessConfigs =
                          {[configs EXCEPT ![1].natIP = {}] : configs \in @}]
            ELSE [interface EXCEPT !.accessConfigs =
                     {[configs EXCEPT ![1].natIP = external_ip] :
                          configs \in IF @ = {} THEN {<<EmptyDict>>} ELSE @}]
    IN  [instance_configs EXCEPT !.networkInterfaces[1] =
            [with_ip EXCEPT !.networkIP = {}]]

(* modify_instance_configs_with_new_network, lines 238-241.                 *)
modify_instance_configs_with_new_network(new_network_link, new_subnetwork_link, instance_configs) ==
    [instance_configs EXCEPT !.networkInterfaces[1].network = new_network_link,
                             !.networkInterfaces[1].subnetwork = new_subnetwork_link]

InitINS ==
    /\ ins_pc = "copy"
    /\ original_instance_configs \in InstanceConfigs
    /\ ins_retrieved_configs = original_instance_configs
    /\ ins_preserve_instance_ip \in BOOLEAN
    /\ address_object \in AddressObjects
    /\ ins_new_instance_configs = {}
    /\ ins_result = "none"

OffINS ==
    /\ ins_pc = "off"
    /\ original_instance_configs =
          [name |-> "instance", other |-> "props-a",
           networkInterfaces |-> <<SecondInterface>>]
    /\ ins_retrieved_configs = original_instance_configs
    /\ ins_preserve_instance_ip = FALSE
    /\ address_object = {}
    /\ ins_new_instance_configs = {}
    /\ ins_result = "none"

ins_inputs == <<original_instance_configs, ins_retrieved_configs, ins_preserve_instance_ip, address_object>>

(* get_new_instance_configs, lines 293-295: the original configs are        *)
(* copied; without an address object the method raises.                     *)
ins_deepcopy ==
    /\ ins_pc = "copy"
    /\ UNCHANGED ins_others
    /\ ins_new_instance_configs' = {original_instance_configs}
    /\ IF address_object = {}
       THEN /\ ins_pc' = "done"
            /\ ins_result' = "AttributeNotExistError"
       ELSE /\ ins_pc' = "external_ip"
            /\ ins_result' = "running"
    /\ UNCHANGED ins_inputs

(* get_new_instance_configs, lines 296-301: the external IP of the copy is  *)
(* dropped, or set to the address object's; an empty 'accessConfigs' list   *)
(* has no entry 0.                                                          *)
ins_modify_external_ip ==
    /\ ins_pc = "external_ip"
    /\ UNCHANGED ins_others
    /\ \E configs \in ins_new_instance_configs, address \in address_object :
          LET external_ip == IF ins_preserve_instance_ip
                             THEN address.external_ip
                             ELSE {}
          IN  IF configs.networkInterfaces[1].accessConfigs = {<<>>}
              THEN /\ ins_pc' = "done"
                   /\ ins_result' = "IndexError"
                   /\ UNCHANGED ins_new_instance_configs
              ELSE /\ ins_new_instance_configs' =
                         {modify_instance_configs_with_external_ip(external_ip, configs)}
                   /\ ins_pc' = "network"
                   /\ UNCHANGED ins_result
    /\ UNCHANGED ins_inputs

(* get_new_instance_configs, lines 302-306: the copy is pointed at the      *)
(* target network and returned.                                             *)
ins_modify_network ==
    /\ ins_pc = "network"
    /\ UNCHANGED ins_others
    /\ ins_new_instance_configs' =
          { modify_instance_configs_with_new_network(
                TargetNetwork, TargetSubnetwork, configs) :
                configs \in ins_new_instance_configs }
    /\ ins_pc' = "done"
    /\ ins_result' = "returned"
    /\ UNCHANGED ins_inputs

NextINS ==
    \/ ins_deepcopy
    \/ ins_modify_external_ip
    \/ ins_modify_network

-----------------------------------------------------------------------------
(* M2.  main2 (vm_network_migration.py 661-754) migrates one instance: it   *)
(* validates the target, builds the new template, then stops the instance,  *)
(* detaches its disks, deletes it and creates the new one.  No statement of *)
(* main2 is inside a try block.                                             *)

DiskNames == {"disk-1", "disk-2"}

\* the 'disks' value of an instance: lists of distinct disks
DiskLists ==
    { disks \in UNION { [1..n -> DiskNames] : n \in 0..MaxDisks } :
        \A i, j \in 1..Len(disks) : disks[i] = disks[j] => i = j }

OriginalInstanceName == "instance"
NewInstanceName == "new-instance"

\* a mutating call: its name, the disk it is about, the body it sends
M2Call(call, disk, body) == [call |-> call, disk |-> disk, body |-> body]

M2Raise(error) ==
    /\ m2_pc' = "raised"
    /\ m2_result' = error

\* what the API answers to a mutating request: an operation, or a refusal
CallResponses == {"operation", "HttpError"}

\* how a wait ends (lines 306-316): the poll finds the operation DONE with
\* or without an error, or the poll itself is refused
WaitOutcomes == {"DONE", "DONE with error", "HttpError"}

InitM2 ==
    /\ m2_pc = "start"
    /\ m2_same_name \in BOOLEAN
    /\ m2_autoCreateSubnetworks \in {{}, {TRUE}, {FALSE}}
    /\ m2_subnetwork \in {"None", TargetSubnetwork}
    /\ m2_preserve_ip \in BOOLEAN
    /\ \E disks \in {{}} \cup { {d} : d \in DiskLists } :
          /\ m2_instance_template =
                [name |-> OriginalInstanceName, disks |-> disks]
          /\ m2_remote =
                [original |-> "RUNNING",
                 attached |-> UNION { {d[i] : i \in 1..Len(d)} : d \in disks },
                 new |-> {}]
    /\ m2_all_disks_info = <<>>
    /\ m2_next = 1
    /\ m2_calls = <<>>
    /\ m2_confirmed = 0
    /\ m2_result = "running"

OffM2 ==
    /\ m2_pc = "off"
    /\ m2_same_name = FALSE
    /\ m2_autoCreateSubnetworks = {TRUE}
    /\ m2_subnetwork = "None"
    /\ m2_preserve_ip = FALSE
    /\ m2_instance_template = [name |-> OriginalInstanceName, disks |-> {}]
    /\ m2_remote = [original |-> "RUNNING", attached |-> {}, new |-> {}]
    /\ m2_all_disks_info = <<>>
    /\ m2_next = 1
    /\ m2_calls = <<>>
    /\ m2_confirmed = 0
    /\ m2_result = "running"

m2_arguments == <<m2_same_name, m2_autoCreateSubnetworks, m2_preserve_ip>>
m2_loop == <<m2_all_disks_info, m2_next>>
m2_remote_side == <<m2_remote, m2_calls, m2_confirmed>>

(* main2 with the addresses reserved before the target is validated         *)
main2_enter_reserving_first ==
    /\ m2_pc = "start"
    /\ UNCHANGED m2_others
    /\ m2_calls' = IF m2_preserve_ip
                   THEN Append(m2_calls, M2Call("reserve_address", "", {}))
                   ELSE m2_calls
    /\ IF m2_same_name
       THEN M2Raise("UnchangedInstanceNameError") /\ UNCHANGED m2_subnetwork
       ELSE IF m2_autoCreateSubnetworks = {}
       THEN M2Raise("InvalidTargetNetworkError") /\ UNCHANGED m2_subnetwork
       ELSE IF m2_subnetwork = "None" /\ m2_autoCreateSubnetworks = {FALSE}
       THEN M2Raise("MissingSubnetworkError") /\ UNCHANGED m2_subnetwork
       ELSE /\ m2_pc' = "prepare"
            /\ m2_subnetwork' = IF m2_subnetwork = "None"
                                THEN TargetNetwork
                                ELSE m2_subnetwork
            /\ UNCHANGED m2_result
    /\ UNCHANGED <<m2_arguments, m2_instance_template, m2_loop, m2_remote,
                   m2_confirmed>>

(* main2, lines 685-698: the names differ, the network is in subnetwork     *)
(* mode, and a custom-mode network comes with a subnetwork.                 *)
main2_enter ==
    /\ m2_pc = "start"
    /\ UNCHANGED m2_others
    /\ IF m2_same_name
       THEN M2Raise("UnchangedInstanceNameError") /\ UNCHANGED m2_subnetwork
       ELSE IF m2_autoCreateSubnetworks = {}
       THEN M2Raise("InvalidTargetNetworkError") /\ UNCHANGED m2_subnetwork
       ELSE IF m2_subnetwork = "None" /\ m2_autoCreateSubnetworks = {FALSE}
       THEN M2Raise("MissingSubnetworkError") /\ UNCHANGED m2_subnetwork
       ELSE /\ m2_pc' = "prepare"
            /\ m2_subnetwork' = IF m2_subnetwork = "None"
                                THEN TargetNetwork
                                ELSE m2_subnetwork
            /\ UNCHANGED m2_result
    /\ UNCHANGED <<m2_arguments, m2_instance_template, m2_loop, m2_remote_side>>

(* main2, lines 700-720: the template, the zone and the network are read,   *)
(* preserve_ip_addresses_handler reserves the addresses to keep, and the    *)
(* template is renamed in place.  A refused read or reservation ends main2. *)
main2_prepare ==
    /\ m2_pc = "prepare"
    /\ UNCHANGED m2_others
    /\ \E read \in {"returned", "HttpError"} :
          IF read = "HttpError"
          THEN M2Raise("HttpError") /\ UNCHANGED <<m2_calls, m2_instance_template>>
          ELSE /\ m2_calls' = IF m2_preserve_ip
                              THEN Append(m2_calls, M2Call("reserve_address", "", {}))
                              ELSE m2_calls
               /\ \E reservation \in {"returned", "HttpError"} :
                     IF m2_preserve_ip /\ reservation = "HttpError"
                     THEN M2Raise("HttpError") /\ UNCHANGED m2_instance_template
                     ELSE /\ m2_instance_template' =
                                [m2_instance_template EXCEPT !.name = NewInstanceName]
                          /\ m2_pc' = "stop"
                          /\ UNCHANGED m2_result
    /\ UNCHANGED <<m2_arguments, m2_subnetwork, m2_loop, m2_remote, m2_confirmed>>

\* a mutating request of main2: refused, or answered with an operation
M2Request(call, wait) ==
    /\ UNCHANGED m2_others
    /\ \E response \in CallResponses :
          IF response = "HttpError"
          THEN M2Raise("HttpError") /\ UNCHANGED m2_calls
          ELSE /\ m2_calls' = Append(m2_calls, call)
               /\ m2_pc' = wait
               /\ UNCHANGED m2_result
    /\ UNCHANGED <<m2_arguments, m2_subnetwork, m2_instance_template, m2_loop,
                   m2_remote, m2_confirmed>>

\* the remote once the operation of a call is done
M2Effect(remote, call) ==
    CASE call.call = "stop"   -> [remote EXCEPT !.original = "TERMINATED"]
      [] call.call = "detach" -> [remote EXCEPT !.attached = @ \ {call.disk}]
      [] call.call = "delete" -> [remote EXCEPT !.original = "absent",
                                                !.attached = {}]
      [] call.call = "create" -> [remote EXCEPT !.new = call.body]
      [] OTHER -> remote

(* wait_for_zone_operation as main2 calls it (lines 726, 737, 744, 751): it *)
(* returns when the operation is DONE without an error, and main2 goes on   *)
(* with `next`; an error of the operation or a refused poll ends main2.  A  *)
(* refused poll says nothing of the operation, which may still complete.    *)
M2Wait(next) ==
    /\ UNCHANGED m2_others
    /\ \E outcome \in WaitOutcomes :
          LET call == m2_calls[Len(m2_calls)]
          IN  CASE outcome = "DONE" ->
                     /\ m2_remote' = M2Effect(m2_remote, call)
                     /\ m2_confirmed' = m2_confirmed + 1
                     /\ m2_pc' = next
                     /\ m2_result' = IF next = "done" THEN "Success" ELSE m2_result
                [] outcome = "DONE with error" ->
                     /\ M2Raise("ZoneOperationsError")
                     /\ UNCHANGED <<m2_remote, m2_confirmed>>
                [] outcome = "HttpError" ->
                     /\ M2Raise("HttpError")
                     /\ \E completes \in BOOLEAN :
                           m2_remote' = IF completes
                                        THEN M2Effect(m2_remote, call)
                                        ELSE m2_remote
                     /\ UNCHANGED m2_confirmed
    /\ UNCHANGED <<m2_arguments, m2_subnetwork, m2_instance_template, m2_calls>>

(* main2, lines 722-726: stop the original instance and wait.               *)
m2_stop_instance ==
    /\ m2_pc = "stop"
    /\ M2Request(M2Call("stop", "", {}), "wait_stop")

m2_wait_stop ==
    /\ m2_pc = "wait_stop"
    /\ M2Wait("disks")
    /\ UNCHANGED m2_loop

(* main2, lines 728-729 with get_disks_info_from_instance_template (125-    *)
(* 127): a template without the key 'disks' raises.                         *)
get_disks_info_from_instance_template ==
    /\ m2_pc = "disks"
    /\ UNCHANGED m2_others
    /\ IF m2_instance_template.disks = {}
       THEN M2Raise("AttributeNotExistError") /\ UNCHANGED m2_loop
       ELSE \E disks \in m2_instance_template.disks :
               /\ m2_all_disks_info' = disks
               /\ m2_next' = 1
               /\ m2_pc' = IF disks = <<>> THEN "delete" ELSE "detach"
               /\ UNCHANGED m2_result
    /\ UNCHANGED <<m2_arguments, m2_subnetwork, m2_instance_template, m2_remote_side>>

(* main2, lines 732-738: one turn of the detach loop.                       *)
m2_detach_disk ==
    /\ m2_pc = "detach"
    /\ M2Request(M2Call("detach", m2_all_disks_info[m2_next], {}), "wait_detach")

m2_wait_detach ==
    /\ m2_pc = "wait_detach"
    /\ M2Wait(IF m2_next < Len(m2_all_disks_info) THEN "detach" ELSE "delete")
    /\ m2_next' = IF m2_pc' = "raised" THEN m2_next ELSE m2_next + 1
    /\ UNCHANGED m2_all_disks_info

(* main2, lines 740-745: delete the original instance and wait.             *)
m2_delete_instance ==
    /\ m2_pc = "delete"
    /\ M2Request(M2Call("delete", "", {}), "wait_delete")

m2_wait_delete ==
    /\ m2_pc = "wait_delete"
    /\ M2Wait("create")
    /\ UNCHANGED m2_loop

(* main2, lines 746-754: create the new instance from the template that was *)
(* modified in place, wait, and print 'Success'.                            *)
m2_create_instance_without_disks ==
    /\ m2_pc = "create"
    /\ M2Request(M2Call("create", "",
                        {[m2_instance_template EXCEPT !.disks = {<<>>}]}),
                 "wait_create")

m2_create_instance ==
    /\ m2_pc = "create"
    /\ M2Request(M2Call("create", "", {m2_instance_template}), "wait_create")

m2_wait_create ==
    /\ m2_pc = "wait_create"
    /\ M2Wait("done")
    /\ UNCHANGED m2_loop

NextM2 ==
    \/ main2_enter
    \/ main2_prepare
    \/ m2_stop_instance
    \/ m2_wait_stop
    \/ get_disks_info_from_instance_template
    \/ m2_detach_disk
    \/ m2_wait_detach
    \/ m2_delete_instance
    \/ m2_wait_delete
    \/ m2_create_instance
    \/ m2_wait_create


-----------------------------------------------------------------------------
(* RES.  The calls a resumed migration repeats on a resource that an        *)
(* earlier, interrupted run already changed: delete_instance_group and      *)
(* create_instance_group of UnmanagedInstanceGroup (unmanaged_instance_     *)
(* group.py 105-132) and Instance.get_instance_status (instance.py 342-     *)
(* 358).  A call may be interrupted after the remote applied it.            *)

NotFoundPieces == <<"not", "found">>
NotFoundReason == <<"resource">> \o <<"was">> \o NotFoundPieces
AlreadyExistsReason == <<"resource", "already", "exists">>

\* the process died while the call was in flight; the remote applied it
Interrupted == [error |-> "interrupted", reason |-> <<>>]

\* the 'status' values of an instance the enum InstanceStatus knows
InstanceStatuses == {"RUNNING", "STOPPING", "TERMINATED"}

\* what instanceGroups().delete and the wait on it can answer
DeleteGroupResponses ==
    IF ~res_remote_group
    THEN {HttpError(NotFoundReason)}
    ELSE {Done, Interrupted, WaiterError, HttpError(<<"quota", "exceeded">>)}

\* what instanceGroups().insert and the wait on it can answer
CreateGroupResponses ==
    IF res_remote_group
    THEN {HttpError(AlreadyExistsReason)}
    ELSE {Done, Interrupted, WaiterError, HttpError(<<"quota", "exceeded">>)}

\* what instances().get can answer
GetInstanceResponses ==
    IF res_remote_instance = "absent"
    THEN {HttpError(NotFoundReason)}
    ELSE {[error |-> "none", reason |-> <<>>, status |-> res_remote_instance],
          HttpError(<<"quota", "exceeded">>)}

(* delete_instance_group (105-118) and create_instance_group (120-132):     *)
(* the request and the wait are in no try block, so every error leaves the  *)
(* method.                                                                  *)
instance_group_call(response) ==
    IF response.error = "none" THEN "returned" ELSE response.error

(* get_instance_status, lines 348-358                                       *)
get_instance_status(response) ==
    IF response.error = "HttpError"
    THEN IF IsSubstring(NotFoundPieces, response.reason)
         THEN "NOTEXISTS"
         ELSE "HttpError"
    ELSE response.status

ResLog(op, response, result) ==
    [op |-> op, group |-> res_remote_group, instance |-> res_remote_instance,
     response |-> response, result |-> result]

InitRES ==
    /\ res_pc = "ready"
    /\ res_remote_group \in BOOLEAN
    /\ res_remote_instance \in InstanceStatuses \cup {"absent"}
    /\ res_log = <<>>

OffRES ==
    /\ res_pc = "off"
    /\ res_remote_group = FALSE
    /\ res_remote_instance = "absent"
    /\ res_log = <<>>

res_delete_instance_group ==
    /\ res_pc = "ready"
    /\ Len(res_log) < MaxResumedCalls
    /\ UNCHANGED res_others
    /\ \E response \in DeleteGroupResponses :
          /\ res_log' = Append(res_log, ResLog("delete_instance_group", response,
                                               instance_group_call(response)))
          /\ res_remote_group' =
                IF response \in {Done, Interrupted} THEN FALSE ELSE res_remote_group
    /\ UNCHANGED <<res_pc, res_remote_instance>>

res_create_instance_group ==
    /\ res_pc = "ready"
    /\ Len(res_log) < MaxResumedCalls
    /\ UNCHANGED res_others
    /\ \E response \in CreateGroupResponses :
          /\ res_log' = Append(res_log, ResLog("create_instance_group", response,
                                               instance_group_call(response)))
          /\ res_remote_group' =
                IF response \in {Done, Interrupted} THEN TRUE ELSE res_remote_group
    /\ UNCHANGED <<res_pc, res_remote_instance>>

res_get_instance_status ==
    /\ res_pc = "ready"
    /\ Len(res_log) < MaxResumedCalls
    /\ UNCHANGED res_others
    /\ \E response \in GetInstanceResponses :
          res_log' = Append(res_log, ResLog("get_instance_status", response,
                                            get_instance_status(response)))
    /\ UNCHANGED <<res_pc, res_remote_group, res_remote_instance>>

NextRES ==
    \/ res_delete_instance_group
    \/ res_create_instance_group
    \/ res_get_instance_status


-----------------------------------------------------------------------------
(* The specifications.                                                      *)

StartMIG ==
    /\ InitMIG
    /\ OffUIG
    /\ OffFR
    /\ OffTP
    /\ OffOW
    /\ OffSN
    /\ OffIGH
    /\ OffPIP
    /\ OffMEM
    /\ OffINS
    /\ OffM2
    /\ OffRES

StartUIG ==
    /\ OffMIG
    /\ InitUIG
    /\ OffFR
    /\ OffTP
    /\ OffOW
    /\ OffSN
    /\ OffIGH
    /\ OffPIP
    /\ OffMEM
    /\ OffINS
    /\ OffM2
    /\ OffRES

StartFR ==
    /\ OffMIG
    /\ OffUIG
    /\ InitFR
    /\ OffTP
    /\ OffOW
    /\ OffSN
    /\ OffIGH
    /\ OffPIP
    /\ OffMEM
    /\ OffINS
    /\ OffM2
    /\ OffRES

StartTP ==
    /\ OffMIG
    /\ OffUIG
    /\ OffFR
    /\ InitTP
    /\ OffOW
    /\ OffSN
    /\ OffIGH
    /\ OffPIP
    /\ OffMEM
    /\ OffINS
    /\ OffM2
    /\ OffRES

StartOW ==
    /\ OffMIG
    /\ OffUIG
    /\ OffFR
    /\ OffTP
    /\ InitOW
    /\ OffSN
    /\ OffIGH
    /\ OffPIP
    /\ OffMEM
    /\ OffINS
    /\ OffM2
    /\ OffRES

StartSN ==
    /\ OffMIG
    /\ OffUIG
    /\ OffFR
    /\ OffTP
    /\ OffOW
    /\ InitSN
    /\ OffIGH
    /\ OffPIP
    /\ OffMEM
    /\ OffINS
    /\ OffM2
    /\ OffRES

StartIGH ==
    /\ OffMIG
    /\ OffUIG
    /\ OffFR
    /\ OffTP
    /\ OffOW
    /\ OffSN
    /\ InitIGH
    /\ OffPIP
    /\ OffMEM
    /\ OffINS
    /\ OffM2
    /\ OffRES

StartPIP ==
    /\ OffMIG
    /\ OffUIG
    /\ OffFR
    /\ OffTP
    /\ OffOW
    /\ OffSN
    /\ OffIGH
    /\ InitPIP
    /\ OffMEM
    /\ OffINS
    /\ OffM2
    /\ OffRES

StartMEM ==
    /\ OffMIG
    /\ OffUIG
    /\ OffFR
    /\ OffTP
    /\ OffOW
    /\ OffSN
    /\ OffIGH
    /\ OffPIP
    /\ InitMEM
    /\ OffINS
    /\ OffM2
    /\ OffRES

StartINS ==
    /\ OffMIG
    /\ OffUIG
    /\ OffFR
    /\ OffTP
    /\ OffOW
    /\ OffSN
    /\ OffIGH
    /\ OffPIP
    /\ OffMEM
    /\ InitINS
    /\ OffM2
    /\ OffRES

StartM2 ==
    /\ OffMIG
    /\ OffUIG
    /\ OffFR
    /\ OffTP
    /\ OffOW
    /\ OffSN
    /\ OffIGH
    /\ OffPIP
    /\ OffMEM
    /\ OffINS
    /\ InitM2
    /\ OffRES

StartRES ==
    /\ OffMIG
    /\ OffUIG
    /\ OffFR
    /\ OffTP
    /\ OffOW
    /\ OffSN
    /\ OffIGH
    /\ OffPIP
    /\ OffMEM
    /\ OffINS
    /\ OffM2
    /\ InitRES

SpecMIG == StartMIG /\ [][NextMIG]_vars
SpecUIG == StartUIG /\ [][NextUIG]_vars
SpecFR == StartFR /\ [][NextFR]_vars
SpecTP == StartTP /\ [][NextTP]_vars
SpecOW == StartOW /\ [][NextOW]_vars
SpecSN == StartSN /\ [][NextSN]_vars
SpecIGH == StartIGH /\ [][NextIGH]_vars
SpecPIP == StartPIP /\ [][NextPIP]_vars
SpecMEM == StartMEM /\ [][NextMEM]_vars
SpecINS == StartINS /\ [][NextINS]_vars
SpecM2 == StartM2 /\ [][NextM2]_vars
SpecRES == StartRES /\ [][NextRES]_vars

Init ==
    \/ StartMIG
    \/ StartUIG
    \/ StartFR
    \/ StartTP
    \/ StartOW
    \/ StartSN
    \/ StartIGH
    \/ StartPIP
    \/ StartMEM
    \/ StartINS
    \/ StartM2
    \/ StartRES

Next ==
    \/ NextMIG
    \/ NextUIG
    \/ NextFR
    \/ NextTP
    \/ NextOW
    \/ NextSN
    \/ NextIGH
    \/ NextPIP
    \/ NextMEM
    \/ NextINS
    \/ NextM2
    \/ NextRES

Spec == Init /\ [][Next]_vars

(* The waiters' loop is `while True` with a sleep of one second: a waiter   *)
(* that is polling polls again.  Nothing is assumed of the remote           *)
(* operation, which may stay short of DONE for ever.                        *)
SpecOWFair ==
    /\ SpecOW
    /\ WF_vars(wait_for_zone_operation)
    /\ WF_vars(wait_for_region_operation)

-----------------------------------------------------------------------------
(* The properties.                                                          *)

\* the template the group of `group` runs, among `templates`
GroupTemplates(group, templates) ==
    UNION { TemplatesNamed(templates, retrieve_instance_template_name(g)) : g \in group }

(* C1: network_migration() on a managed instance group that serves at least *)
(* one target pool ends with MigrationFailed, and no mutating call is       *)
(* issued: the group and the templates stay as they were at the call.       *)
C1_TargetPoolGuardFailsBeforeMutation ==
    (mig_op = "network_migration" /\ Cardinality(target_pool_list) >= 1) =>
        /\ mig_calls = <<>>
        /\ <<remote_group, remote_templates>> = mig_entry_remote
        /\ mig_pc = "idle" => mig_result = "MigrationFailed"

C1_Witness ==
    /\ mig_op = "network_migration"
    /\ Cardinality(target_pool_list) >= 1
    /\ mig_pc = "idle"
    /\ mig_result = "MigrationFailed"

(* C2: for every kind of resource (instance, unmanaged group, managed       *)
(* group), a migration of a resource that is already on the target          *)
(* subnetwork issues no mutating call and leaves the configs as they were.  *)
C2_NoOpWhenAlreadyOnTarget ==
    /\ (/\ mig_op = "network_migration"
        /\ GroupTemplates(mig_entry_remote[1], mig_entry_remote[2]) # {}
        /\ \A t \in GroupTemplates(mig_entry_remote[1], mig_entry_remote[2]) :
              compare_original_network_and_target_network(
                  t.subnetwork, TargetSubnetwork))
          => /\ mig_calls = <<>>
             /\ <<remote_group, remote_templates>> = mig_entry_remote
    /\ (/\ uig_pc # "off"
        /\ uig_result # "none"
        /\ uig_compare_original_network_and_target_network)
          => /\ uig_calls = <<>>
             /\ uig_remote_group = {uig_original_configs}
             /\ \A i \in Members : uig_instance_subnetwork[i] # Deleted

(* C3: network_migration() on an internal regional forwarding rule whose    *)
(* backend service is used by more than one forwarding rule returns         *)
(* normally and changes nothing: the rule is not deleted, the backend       *)
(* service is not migrated, no mutating call is issued.                     *)
C3_SharedBackendServiceIsNotMigrated ==
    (/\ fr_kind = "InternalRegionalForwardingRule"
     /\ fr_op = "network_migration"
     /\ fr_backends # <<>>
     /\ count_forwarding_rules(fr_backends[1]) > 1)
        => /\ fr_calls = <<>>
           /\ fr_remote = {fr_original_configs}
           /\ bs_migrations[fr_backends[1]] = 0
           /\ bs_group[fr_backends[1]] = {GroupConfigs(FirstTemplateName, "props-a")}
           /\ fr_pc = "idle" => fr_result = "returned"

C3_Witness ==
    /\ fr_kind = "InternalRegionalForwardingRule"
    /\ fr_op = "network_migration"
    /\ fr_backends # <<>>
    /\ count_forwarding_rules(fr_backends[1]) > 1
    /\ fr_pc = "idle"
    /\ fr_result = "returned"
    /\ "can not be migrated" \in fr_notices

\* an instance of the pool is a member of an unmanaged instance group
PoolHasUnmanagedMember ==
    \E k \in 1..Len(tp_pool) :
        Referrer("MEMBER_OF", "unmanaged-group") \in tp_referrers[tp_pool[k]]

\* an instance of the pool is a member of a managed instance group
PoolHasManagedMember ==
    \E k \in 1..Len(tp_pool) :
        Referrer("MEMBER_OF", "managed-group") \in tp_referrers[tp_pool[k]]

(* C4: the migration of a target pool with a backend instance that is a     *)
(* member of an unmanaged instance group ends with AmbiguousTargetResource, *)
(* and neither the pool's backends nor the group are touched: no backend is *)
(* migrated, every instance stays on the group's network.                   *)
C4_UnmanagedMemberIsAmbiguous ==
    (tp_pc # "off" /\ PoolHasUnmanagedMember) =>
        /\ tp_calls = <<>>
        /\ \A i \in PoolInstances :
              tp_instance_subnetwork[i] = tp_unmanaged_group.subnetwork
        /\ tp_group = {GroupConfigs(FirstTemplateName, "props-a")}
        /\ (tp_pc = "idle" /\ tp_result # "none")
              => tp_result = "AmbiguousTargetResource"

C4_Witness ==
    /\ PoolHasUnmanagedMember
    /\ tp_pc = "idle"
    /\ tp_result = "AmbiguousTargetResource"
    /\ tp_unmanaged_group.subnetwork # TargetSubnetwork

(* C5: the migration of a target pool whose backends are all single         *)
(* instances or members of a managed group succeeds (no remote call being   *)
(* refused); the pool's instance list is unchanged, every single instance   *)
(* and the managed group's template are on the target subnetwork.           *)
C5_PoolOfInstancesAndManagedGroupsMigrates ==
    (/\ tp_pc = "idle"
     /\ tp_result # "none"
     /\ ~PoolHasUnmanagedMember
     /\ ~tp_api_failed)
        => /\ tp_result = "returned"
           /\ \A k \in 1..Len(tp_pool) :
                 get_referrer_selfLinks(tp_referrers[tp_pool[k]]) = {}
                    => tp_instance_subnetwork[tp_pool[k]] = TargetSubnetwork
           /\ PoolHasManagedMember =>
                 /\ GroupTemplates(tp_group, tp_group_templates) # {}
                 /\ \A t \in GroupTemplates(tp_group, tp_group_templates) :
                       t.subnetwork = TargetSubnetwork

\* network_migration() on a global forwarding rule has returned normally
GlobalMigrationReturned ==
    /\ fr_kind = "GlobalForwardingRule"
    /\ fr_op = "network_migration"
    /\ fr_pc = "idle"
    /\ fr_result = "returned"

(* C6: after network_migration() on a global forwarding rule returns, the   *)
(* rule, its proxy and its backend services are as they were, and every     *)
(* backend's group and template differ from the original ones in nothing    *)
(* but the network fields and the name of the recreated template.           *)
C6_GlobalChainKeepsNonNetworkFields ==
    GlobalMigrationReturned =>
        /\ \A c \in fr_remote :
              [c EXCEPT !.network = LegacyNetwork, !.subnetwork = NoSubnetwork] =
              [fr_original_configs EXCEPT !.network = LegacyNetwork,
                                          !.subnetwork = NoSubnetwork]
        /\ fr_remote # {}
        /\ fr_proxy = [name |-> "proxy", other |-> "props-a"]
        /\ \A k \in 1..Len(fr_backends) :
              LET b == fr_backends[k]
              IN  /\ bs_config[b] = BackendServiceConfigs(b, "props-a")
                  /\ \E g \in bs_group[b] :
                        [g EXCEPT !.instanceTemplate = FirstTemplateName] =
                        GroupConfigs(FirstTemplateName, "props-a")
                  /\ GroupTemplates(bs_group[b], bs_templates[b]) # {}
                  /\ \A t \in GroupTemplates(bs_group[b], bs_templates[b]) :
                        t.other = "props-b"

C6_Witness ==
    /\ GlobalMigrationReturned
    /\ Len(fr_backends) = MaxBackendServices
    /\ \A k \in 1..Len(fr_backends) :
          /\ bs_migrations[fr_backends[k]] >= 1
          /\ \A t \in GroupTemplates(bs_group[fr_backends[k]],
                                     bs_templates[fr_backends[k]]) :
                t.name # FirstTemplateName /\ t.subnetwork = TargetSubnetwork

(* C7: after network_migration() returns on a global forwarding rule that   *)
(* was created on the legacy network, the rule's own network field is the   *)
(* target network.                                                          *)
C7_GlobalRuleIsOnTargetNetwork ==
    (GlobalMigrationReturned /\ fr_original_configs.network = LegacyNetwork) =>
        /\ fr_remote # {}
        /\ \A c \in fr_remote : c.network = TargetNetwork

(* C8: network_migration() called again on a handler that is at its last    *)
(* checkpoint, NEW_GROUP_CREATED, issues no mutating call.                  *)
C8_ReinvocationAtLastCheckpointIsIdempotent ==
    (/\ mig_op = "network_migration"
     /\ mig_entry_status = MigrationStatus.NEW_GROUP_CREATED)
        => mig_calls = <<>>

(* C9: whatever checkpoint rollback() starts from, migration_status is      *)
(* NOT_START when it returns normally.                                      *)
C9_RollbackEndsAtNotStart ==
    (mig_op = "rollback" /\ mig_pc = "idle" /\ mig_result = "returned") =>
        migration_status = MigrationStatus.NOT_START

(* C10: after rollback() from checkpoint 2, 3 or 4 returns normally, the    *)
(* group exists with original_instance_group_configs and the template the   *)
(* migration inserted exists no more.                                       *)
C10_RollbackRestoresTheOriginalGroup ==
    (/\ mig_op = "rollback"
     /\ mig_pc = "idle"
     /\ mig_result = "returned"
     /\ mig_entry_status \in {MigrationStatus.NEW_INSTANCE_TEMPLATE_CREATED,
                              MigrationStatus.ORIGINAL_GROUP_DELETED,
                              MigrationStatus.NEW_GROUP_CREATED})
        => /\ remote_group = {original_instance_group_configs}
           /\ new_instance_template \cap remote_templates = {}

\* the group of backend service `b` runs a template of the target subnetwork
BackendIsMigrated(b) ==
    /\ GroupTemplates(bs_group[b], bs_templates[b]) # {}
    /\ \A t \in GroupTemplates(bs_group[b], bs_templates[b]) :
          t.subnetwork = TargetSubnetwork

\* the run of a global rule's handlers ended before the last handler
GlobalMigrationFailedAtHandler ==
    /\ fr_kind = "GlobalForwardingRule"
    /\ fr_op \in {"network_migration", "rollback"}
    /\ fr_pc = "idle"
    /\ fr_next <= Len(backends_migration_handlers)

C12_WaiterFailsOnErrorPayload ==
    (ow_pc = "done" /\ ow_result # "HttpError") =>
        IF ow_error # {}
        THEN /\ ow_result = (IF ow_scope = "zone" THEN "ZoneOperationsError"
                                                  ELSE "RegionOperationsError")
             /\ ow_returned = {}
        ELSE /\ ow_result = "returned"
             /\ ow_returned = {[status |-> "DONE", error |-> {}]}

RequestedSubnetworkIsDeclared ==
    \E n \in sn_subnetwork : SubnetworkUrl(sn_region, n) \in sn_subnetworks

(* C14: generate_new_network_info() when the subnetwork is wanted: it fails *)
(* with SubnetworkNotExists whenever the network declares no subnetwork of  *)
(* exactly the requested region and name, and it sets subnetwork_link only  *)
(* when the network declares one.                                           *)
C14_SubnetworkMustBeDeclared ==
    (/\ sn_pc = "done"
     /\ sn_network_link # {}
     /\ ~sn_only_check_network_info
     /\ sn_subnetwork # {})
        => /\ ~RequestedSubnetworkIsDeclared => sn_result = "SubnetworkNotExists"
           /\ sn_subnetwork_link # {} => RequestedSubnetworkIsDeclared

\* build_instance_group() is over and neither lookup found the group
NeitherLookupSucceeded ==
    /\ igh_pc = "done"
    /\ ~igh_zone_lookup.found
    /\ ~igh_region_lookup.found

C16_NoBackendIsANoOp ==
    (fr_op = "network_migration" /\ fr_backends = <<>> /\ fr_pc = "idle") =>
        /\ fr_result = "returned"
        /\ "No backends need to be migrated" \in fr_notices
        /\ backends_migration_handlers = <<>>
        /\ fr_handler = {}
        /\ fr_calls = <<>>
        /\ fr_remote = {fr_original_configs}

(* C17: when a remote call fails in the middle of network_migration() on a  *)
(* forwarding rule, of any of the three kinds, the rule's rollback is run   *)
(* by the method: it never ends on the error without the rollback done.     *)
C17_RemoteErrorRunsTheRollback ==
    (/\ fr_op = "network_migration"
     /\ fr_pc = "idle"
     /\ fr_result = "HttpError"
     /\ fr_calls # <<>>)
        => "Rollback has been finished." \in fr_notices

(* C18: when the external (resp. internal) address is to be preserved and   *)
(* reserving it as a static address fails with an HttpError,                *)
(* preserve_ip_addresses_handler still returns, and the interface it        *)
(* returns carries no natIP (resp. no networkIP).                           *)
C18_FailedReservationDropsTheAddress ==
    /\ (pip_pc \in {"internal", "alias", "done"}
            /\ pip_external_reservation \in {"HttpError already", "HttpError other"})
        => /\ pip_result \in {"running", "returned"}
           /\ pip_result = "returned" => ~HasNatIP(pip_new_network_interface)
    /\ (pip_pc \in {"alias", "done"} /\ pip_internal_reservation = "HttpError")
        => /\ pip_result \in {"running", "returned"}
           /\ pip_result = "returned" => pip_new_network_interface.networkIP = {}

\* the mutating calls of network_migration(), in the order of its code
MutatingCallsInOrder == <<"insert_template", "delete_group", "create_group">>

IsPrefix(calls, order) ==
    /\ Len(calls) <= Len(order)
    /\ \A k \in 1..Len(calls) : calls[k] = order[k]

(* C19: in a run of network_migration() on a managed instance group the     *)
(* mutating calls are issued only in the order insert template, delete      *)
(* group, create group: the calls of a run are a prefix of that order, the  *)
(* delete is issued only with the new template inserted, the create only    *)
(* with the group deleted, and a run that passed the short-circuit and      *)
(* returned issued all three.                                               *)
C19_MutatingCallsInOrder ==
    /\ [](mig_op = "network_migration" =>
            /\ IsPrefix(mig_calls, MutatingCallsInOrder)
            /\ (mig_result = "returned" /\ migration_status # MigrationStatus.NOT_START)
                  => mig_calls = MutatingCallsInOrder)
    /\ [][(mig_op = "network_migration" /\ Len(mig_calls') = Len(mig_calls) + 1) =>
            /\ Len(mig_calls) >= 1 => new_instance_template \subseteq remote_templates
            /\ Len(mig_calls) >= 2 => remote_group = {}]_vars

C19_Witness ==
    /\ mig_op = "network_migration"
    /\ mig_result = "returned"
    /\ mig_calls = MutatingCallsInOrder

\* the k-th mutating call of the running network_migration() was issued and
\* did not raise
CallConfirmed(k) ==
    /\ Len(mig_calls) >= k
    /\ Len(mig_calls) = k => mig_result \in {"running", "returned"}

RollbackIssued(call) ==
    /\ mig_op = "rollback"
    /\ \E k \in 1..Len(mig_calls) : mig_calls[k] = call

(* C21: rollback() of a managed instance group deletes the group only from  *)
(* a checkpoint past 3, recreates the original group only from a checkpoint *)
(* >= 3, deletes the new template only from a checkpoint >= 2, and from     *)
(* checkpoint 0 or 1 issues no mutating call.                               *)
C21_RollbackUndoesOnlyConfirmedSteps ==
    /\ RollbackIssued("delete_group") => mig_entry_status > 3
    /\ RollbackIssued("create_group") => mig_entry_status >= 3
    /\ RollbackIssued("delete_template") => mig_entry_status >= 2
    /\ (mig_op = "rollback" /\ mig_entry_status <= 1) => mig_calls = <<>>

(* C21 as the code has it: the group is deleted from a checkpoint >= 3,     *)
(* when a group exists at that time (the new group, or at checkpoint 3 one  *)
(* that a failed creation left behind); the other steps as stated.          *)
C21_RollbackUndoesFromItsCheckpoint ==
    /\ RollbackIssued("delete_group") =>
          /\ mig_entry_status >= 3
          /\ mig_entry_remote[1] # {}
    /\ RollbackIssued("create_group") => mig_entry_status >= 3
    /\ RollbackIssued("delete_template") => mig_entry_status >= 2
    /\ (mig_op = "rollback" /\ mig_entry_status <= 1) => mig_calls = <<>>

C21_Witness ==
    /\ mig_op = "rollback"
    /\ mig_result = "returned"
    /\ mig_entry_status = 3
    /\ mig_calls = <<"delete_group", "create_group", "delete_template">>

\* the names of the calls issued, without what they were issued on
CallNames(calls) == [k \in 1..Len(calls) |-> calls[k][1]]

InternalRuleSteps ==
    <<"delete_forwarding_rule", "migrate_backend_service", "insert_forwarding_rule">>

InternalRunPastTheGuard ==
    /\ fr_kind = "InternalRegionalForwardingRule"
    /\ fr_op = "network_migration"
    /\ "can not be migrated" \notin fr_notices

(* C22: for an internal regional forwarding rule whose backend service has  *)
(* at most one forwarding rule the steps are, in this order, delete the     *)
(* rule, migrate the backend service, insert the rule with the new configs: *)
(* the migration of the backend service starts only with the rule deleted,  *)
(* and the insert is issued only after that migration returned.             *)
C22_InternalRuleStepsInOrder ==
    /\ [](InternalRunPastTheGuard =>
            /\ IsPrefix(CallNames(fr_calls), InternalRuleSteps)
            /\ fr_result = "returned" =>
                  /\ CallNames(fr_calls) = InternalRuleSteps
                  /\ fr_remote = {fr_new_configs})
    /\ [][(InternalRunPastTheGuard /\ Len(fr_calls') = Len(fr_calls) + 1) =>
            /\ Len(fr_calls) = 1 => fr_remote = {}
            /\ Len(fr_calls) = 2 =>
                  /\ fr_pc = "internal_insert"
                  /\ fr_result = "running"
                  /\ fr_remote' \in {fr_remote, {fr_new_configs}}]_vars

C22_Witness ==
    /\ InternalRunPastTheGuard
    /\ fr_result = "returned"
    /\ CallNames(fr_calls) = InternalRuleSteps

\* the calls of the instance FSM run on a member of an unmanaged group
InstanceCalls == {"stop_instance", "detach_disks", "delete_instance", "create_instance"}

CallsOn(calls, instance) ==
    {k \in 1..Len(calls) : calls[k][1] \in InstanceCalls /\ calls[k][2] = instance}

Failed(result) == result \notin {"none", "running", "returned"}

GlobalRun ==
    /\ fr_kind = "GlobalForwardingRule"
    /\ fr_op = "network_migration"

(* C23: siblings are migrated strictly one after the other.  For a global   *)
(* forwarding rule the k-th call is the migration of the k-th saved         *)
(* handler, and when a handler fails it is the last one called.  For an     *)
(* unmanaged instance group the calls on a member come after all calls on   *)
(* the members before it, a member is started only with the FSM of every    *)
(* earlier started member complete, and when a member's FSM fails no later  *)
(* member is started and nothing else is called.                            *)
C23_SiblingsAreMigratedOneAtATime ==
    /\ GlobalRun =>
          /\ Len(fr_calls) <= Len(backends_migration_handlers)
          /\ \A k \in 1..Len(fr_calls) :
                fr_calls[k] = <<"migrate_backend_service",
                                backends_migration_handlers[k].backend>>
          /\ fr_pc = "global_migrate" => Len(fr_calls) = fr_next - 1
          /\ (Failed(fr_result) /\ fr_calls # <<>>) =>
                /\ fr_pc = "idle"
                /\ Len(fr_calls) = fr_next
    /\ uig_pc # "off" =>
          /\ \A k, j \in 1..Len(uig_calls) :
                (/\ k < j
                 /\ uig_calls[k][1] \in InstanceCalls
                 /\ uig_calls[j][1] \in InstanceCalls)
                    => uig_calls[k][2] <= uig_calls[j][2]
          /\ \A i, j \in Members :
                (i < j /\ CallsOn(uig_calls, i) # {} /\ CallsOn(uig_calls, j) # {})
                    => Cardinality(CallsOn(uig_calls, i)) = Cardinality(InstanceCalls)
          /\ uig_result = "ZoneOperationsError" =>
                /\ uig_pc = "idle"
                /\ \A k \in 1..Len(uig_calls) :
                      /\ uig_calls[k][1] \in InstanceCalls
                      /\ uig_calls[k][2] <= uig_instance_selfLinks[uig_next - 1]
                /\ CallsOn(uig_calls, uig_instance_selfLinks[uig_next - 1]) # {}

C23_Witness ==
    \/ /\ GlobalRun
       /\ Len(backends_migration_handlers) >= 2
       /\ Failed(fr_result)
       /\ Len(fr_calls) = 1
    \/ /\ uig_result = "ZoneOperationsError"
       /\ Len(uig_instance_selfLinks) >= 2
       /\ uig_next = 2

\* the place of a call in migrate_unmanaged_instance_group
StepOf(call) ==
    CASE call \in InstanceCalls -> 1
      [] call = "delete_instance_group" -> 2
      [] call = "create_instance_group" -> 3
      [] call = "add_instance" -> 4

UigIssued(call) == \E k \in 1..Len(uig_calls) : uig_calls[k][1] = call

CapturedMembers == {uig_instance_selfLinks[k] : k \in 1..Len(uig_instance_selfLinks)}

(* C24: migrate_unmanaged_instance_group migrates every member, deletes the *)
(* group, creates an empty group from the new-network configs and adds the  *)
(* members back, in this order; the delete is issued only with every        *)
(* member's migration returned, the group is created without members, and   *)
(* after a run that returned the members of the new group are the members   *)
(* captured when the handle was built.                                      *)
C24_UnmanagedGroupStepsInOrder ==
    /\ [](uig_pc # "off" =>
            /\ \A k, j \in 1..Len(uig_calls) :
                  k < j => StepOf(uig_calls[k][1]) <= StepOf(uig_calls[j][1])
            /\ \A k, j \in 1..Len(uig_calls) :
                  (k # j /\ uig_calls[k] = uig_calls[j]) => uig_calls[k][1] \in InstanceCalls
            /\ UigIssued("delete_instance_group") =>
                  \A i \in CapturedMembers :
                      compare_original_network_and_target_network(
                          uig_instance_subnetwork[i], TargetSubnetwork)
            /\ uig_result = "returned" =>
                  /\ uig_remote_group = {uig_new_configs}
                  /\ uig_new_configs.network = TargetNetwork
                  /\ uig_new_configs.subnetwork = TargetSubnetwork
                  /\ uig_remote_members = CapturedMembers
                  /\ \A i \in CapturedMembers :
                        \E k \in 1..Len(uig_calls) : uig_calls[k] = <<"add_instance", i>>)
    /\ [][(uig_pc = "create_group" /\ uig_pc' = "add_instances") =>
            /\ uig_remote_members' = {}
            /\ uig_remote_group' = {uig_new_configs}]_vars

C24_Witness ==
    /\ uig_result = "returned"
    /\ Cardinality(CapturedMembers) = 2
    /\ CallsOn(uig_calls, 1) # {}
    /\ CallsOn(uig_calls, 2) # {}

(* C25: in add_all_instances an HttpError 'already a member of' of          *)
(* add_an_instance is a warning and the loop goes on with the next member,  *)
(* and every other HttpError ends add_all_instances with                    *)
(* AddInstanceToInstanceGroupError; in remove_an_instance an HttpError 'is  *)
(* not a member of' is a warning and the call returns, and every other      *)
(* HttpError is raised.                                                     *)
C25_MembershipErrorsAreWarnings ==
    /\ mem_op = "add_all_instances" =>
          \A k \in 1..Len(mem_responses) :
              /\ mem_responses[k] = HttpError(AlreadyMemberReason) =>
                    /\ \E w \in 1..Len(mem_warnings) : mem_warnings[w] = AlreadyMemberReason
                    /\ k = Len(mem_responses) =>
                          /\ mem_result \in {"running", "returned"}
                          /\ mem_next = k + 1
              /\ (/\ mem_responses[k].error = "HttpError"
                  /\ mem_responses[k] # HttpError(AlreadyMemberReason)) =>
                    /\ k = Len(mem_responses)
                    /\ mem_pc = "idle"
                    /\ mem_result = "AddInstanceToInstanceGroupError"
    /\ mem_op = "remove_an_instance" =>
          /\ mem_responses = <<HttpError(NotMemberReason)>> =>
                /\ mem_result = "returned"
                /\ mem_warnings = <<NotMemberReason>>
          /\ (/\ mem_responses[1].error = "HttpError"
              /\ mem_responses[1] # HttpError(NotMemberReason)) =>
                /\ mem_result = "HttpError"
                /\ mem_warnings = <<>>

C25_Witness ==
    /\ mem_op = "add_all_instances"
    /\ mem_result = "returned"
    /\ Len(mem_responses) = 2
    /\ mem_responses[1] = HttpError(AlreadyMemberReason)
    /\ mem_invocations = 2

\* the description of a group that an instance group manager controls
ManagedDescription ==
    <<"This instance group is controlled by ", "Instance Group Manager", " 'x'.">>

HandleClasses == {h.class : h \in igh_handle}

WaiterEnds == ow_pc = "polling" /\ ow_pc' = "done"

(* C27, as stated: a waiter returns or raises only after a poll that saw    *)
(* the status DONE; it ends if the operation gets to DONE; and it never     *)
(* ends while the operation is short of DONE.                               *)
C27_WaiterEndsOnlyOnDone ==
    /\ [][WaiterEnds => ow_status = "DONE"]_vars
    /\ [](ow_pc = "done" => ow_status = "DONE")
    /\ (ow_pc = "polling" /\ ow_status = "DONE") ~> (ow_pc = "done")

(* C27, amended: a waiter returns, or raises the operation's error, only    *)
(* after a poll that saw the status DONE; short of DONE it ends only by an  *)
(* HttpError of the poll itself, never by a timeout; and it ends if the     *)
(* operation gets to DONE.                                                  *)
C27_WaiterEndsOnDoneOrFailedPoll ==
    /\ [][WaiterEnds => (ow_status = "DONE" \/ ow_result' = "HttpError")]_vars
    /\ [](ow_pc = "done" =>
            /\ ow_result \in {"returned", "ZoneOperationsError", "HttpError"}
            /\ ow_result # "HttpError" => ow_status = "DONE"
            /\ ow_returned # {} => \A r \in ow_returned : r.status = "DONE")
    /\ (ow_pc = "polling" /\ ow_status = "DONE") ~> (ow_pc = "done")

C27_Witness ==
    /\ ow_pc = "done"
    /\ ow_polls >= 2
    /\ ow_status = "DONE"
    /\ ow_result \in {"returned", "ZoneOperationsError"}

\* the 'natIP' of an interface: {} when it has no 'accessConfigs' or no 'natIP'
NatIPOf(interface) ==
    IF interface.accessConfigs = {}
    THEN {}
    ELSE UNION {configs[1].natIP : configs \in interface.accessConfigs}

\* two interfaces differ in nothing but 'natIP', 'networkIP' and the network
SameButAddressesAndNetwork(new, old) ==
    /\ new.aliasIpRanges = old.aliasIpRanges
    /\ old.accessConfigs # {} =>
          \E n \in new.accessConfigs, o \in old.accessConfigs :
              /\ Len(n) = Len(o)
              /\ n[1].type = o[1].type
              /\ \A k \in 2..Len(o) : n[k] = o[k]
    /\ old.accessConfigs = {} =>
          \/ new.accessConfigs = {}
          \/ new.accessConfigs = {<<AccessConfig(NatIPOf(new), {})>>}

(* C30: the configs get_new_instance_configs returns are the original ones  *)
(* but for interface 0, whose network and subnetwork are the target's,      *)
(* whose natIP is removed without the preserve flag and is the address      *)
(* object's external IP with it, and whose networkIP is removed; nothing    *)
(* else is changed.                                                         *)
C30_NewInstanceConfigs ==
    (ins_pc = "done" /\ ins_result = "returned") =>
        \E new \in ins_new_instance_configs, address \in address_object :
            LET old == ins_retrieved_configs
                new0 == new.networkInterfaces[1]
                old0 == old.networkInterfaces[1]
            IN  /\ ins_new_instance_configs = {new}
                /\ new.name = old.name
                /\ new.other = old.other
                /\ Len(new.networkInterfaces) = Len(old.networkInterfaces)
                /\ \A k \in 2..Len(old.networkInterfaces) :
                      new.networkInterfaces[k] = old.networkInterfaces[k]
                /\ new0.network = TargetNetwork
                /\ new0.subnetwork = TargetSubnetwork
                /\ new0.networkIP = {}
                /\ NatIPOf(new0) = IF ins_preserve_instance_ip
                                   THEN address.external_ip
                                   ELSE {}
                /\ SameButAddressesAndNetwork(new0, old0)

C30_Witness ==
    /\ ins_pc = "done"
    /\ ins_result = "returned"
    /\ ins_preserve_instance_ip
    /\ Len(ins_retrieved_configs.networkInterfaces) = 2
    /\ ins_retrieved_configs.networkInterfaces[1].networkIP # {}
    /\ ins_retrieved_configs.networkInterfaces[1].accessConfigs = {}
    /\ \E new \in ins_new_instance_configs :
          NatIPOf(new.networkInterfaces[1]) = {ExternalAddress}

(* C28: the original configs of a resource stay as they were retrieved      *)
(* while the new configs are derived and applied: those of an instance      *)
(* (get_new_instance_configs), of an unmanaged and of a managed instance    *)
(* group, and the network interface of the instance template that main2     *)
(* hands to preserve_ip_addresses_handler.                                  *)
C28_OriginalSnapshotIsNeverMutated ==
    /\ [](ins_pc # "off" => original_instance_configs = ins_retrieved_configs)
    /\ [](pip_pc # "off" => original_network_interface = pip_original_network_interface)
    /\ [][uig_original_configs' = uig_original_configs]_vars
    /\ [][mig_op' # "construct" =>
            original_instance_group_configs' = original_instance_group_configs]_vars

NewConfigsChange ==
    /\ mig_op = "network_migration"
    /\ mig_op' = "network_migration"
    /\ new_instance_group_configs' # new_instance_group_configs

(* C29, as stated: in network_migration() of a managed instance group the   *)
(* new configs are not modified once the first mutating call, the insert of *)
(* the new template, has been issued.                                       *)
C29_NewConfigsFixedAfterFirstCall ==
    [][NewConfigsChange => mig_calls = <<>>]_vars

(* C29, amended: in a run of network_migration() the new configs are        *)
(* modified at one place only, after the insert of the new template is      *)
(* confirmed and before the group is deleted, and only their template link  *)
(* changes, to the new template; they are not modified once the delete of   *)
(* the group has been issued.                                               *)
C29_NewConfigsFixedBeforeGroupCalls ==
    [][NewConfigsChange =>
          /\ mig_pc = "modify_configs"
          /\ mig_calls = <<"insert_template">>
          /\ mig_calls' = mig_calls
          /\ migration_status = MigrationStatus.NEW_INSTANCE_TEMPLATE_CREATED
          /\ \E t \in new_instance_template :
                new_instance_group_configs' =
                    [new_instance_group_configs EXCEPT !.instanceTemplate = t.name]]_vars

C29_Witness ==
    /\ mig_op = "network_migration"
    /\ mig_pc = "delete_group"
    /\ mig_calls = <<"insert_template">>
    /\ new_instance_group_configs # original_instance_group_configs

-----------------------------------------------------------------------------
(* main2: the migration of one instance.                                    *)

\* the steps of main2 on the instance, without the address reservations
M2Steps == SelectSeq(m2_calls, LAMBDA c : c.call # "reserve_address")

\* the disks the template of the original instance lists
M2OriginalDisks ==
    IF m2_instance_template.disks = {}
    THEN <<>>
    ELSE CHOOSE disks \in m2_instance_template.disks : TRUE

\* the steps of a complete run, in order
M2ExpectedSteps ==
    <<M2Call("stop", "", {})>>
    \o [i \in 1..Len(M2OriginalDisks) |-> M2Call("detach", M2OriginalDisks[i], {})]
    \o <<M2Call("delete", "", {})>>

M2Waiting == m2_pc \in {"wait_stop", "wait_detach", "wait_delete", "wait_create"}

(* C31: main2 issues stop, one detach per disk of the original instance,    *)
(* delete, create, in this order; every step but the last issued one was    *)
(* confirmed DONE by the waiter, and the last one too unless main2 is       *)
(* waiting for it or has ended on it; once the delete is issued no disk is  *)
(* attached to the original instance; the body of the create lists the      *)
(* disks of the original instance.                                          *)
C31_InstanceStepsInOrder ==
    /\ \A k \in 1..Len(M2Steps) :
          IF k <= Len(M2ExpectedSteps)
          THEN M2Steps[k] = M2ExpectedSteps[k]
          ELSE /\ k = Len(M2ExpectedSteps) + 1
               /\ M2Steps[k].call = "create"
               /\ \E template \in M2Steps[k].body :
                     /\ template.disks = {M2OriginalDisks}
                     /\ template.name = NewInstanceName
    /\ m2_confirmed \in {Len(M2Steps) - 1, Len(M2Steps)}
    /\ m2_confirmed < Len(M2Steps) => M2Waiting \/ m2_pc = "raised"
    /\ (\E k \in 1..Len(M2Steps) : M2Steps[k].call = "delete")
          => m2_remote.attached = {}

C31_Witness ==
    /\ m2_result = "Success"
    /\ Len(M2Steps) = 5
    /\ m2_confirmed = 5
    /\ \E template \in m2_remote.new : template.disks = {<<"disk-2", "disk-1">>}

(* C40: once main2 has terminated, normally or by an error, the original    *)
(* instance or the new instance exists on the remote.                       *)
C40_InstanceIsNeverLost ==
    m2_pc \in {"done", "raised"}
        => m2_remote.original # "absent" \/ m2_remote.new # {}

-----------------------------------------------------------------------------
(* Calls repeated by a resumed migration.                                   *)

(* C32: a call repeated after an interruption does not fail:                *)
(* delete_instance_group on a group that is already deleted returns,        *)
(* create_instance_group on a group that already exists returns, and        *)
(* get_instance_status answers NOTEXISTS to a 'not found' response.         *)
C32_RepeatedCallsDoNotFail ==
    \A k \in 1..Len(res_log) :
        LET call == res_log[k]
        IN  /\ call.op = "delete_instance_group" /\ ~call.group
                => call.result = "returned"
            /\ call.op = "create_instance_group" /\ call.group
                => call.result = "returned"
            /\ call.op = "get_instance_status" /\ call.instance = "absent"
                => call.result = "NOTEXISTS"

-----------------------------------------------------------------------------
(* Validation of the target network.                                        *)

ValidationErrors ==
    {"InvalidTargetNetworkError", "MissingSubnetworkError", "SubnetworkNotExists"}

-----------------------------------------------------------------------------
(* ManagedInstanceGroupMigration: the group and its new template.           *)

MigIssued(call) == \E k \in 1..Len(mig_calls) : mig_calls[k] = call

\* network_migration() ended on a template it could not derive or insert
TemplateStepFailed ==
    \/ mig_result = "UnableToGenerateNewInstanceTemplate"
    \/ /\ mig_result = "HttpError"
       /\ mig_calls # <<>>
       /\ mig_calls[Len(mig_calls)] = "insert_template"

(* C34: while network_migration() runs and after it ended, the delete of    *)
(* the group has been issued only with the new template inserted on the     *)
(* remote and named by new_instance_group_configs; when the template could  *)
(* not be derived or inserted the group is as it was at entry.              *)
C34_GroupDeletedOnlyAfterTemplateInserted ==
    mig_op = "network_migration" =>
        /\ MigIssued("delete_group") =>
              /\ mig_calls[1] = "insert_template"
              /\ new_instance_template # {}
              /\ new_instance_template \subseteq remote_templates
              /\ \A t \in new_instance_template :
                    retrieve_instance_template_name(new_instance_group_configs) = t.name
        /\ remote_group # mig_entry_remote[1] => MigIssued("delete_group")
        /\ TemplateStepFailed =>
              /\ remote_group = mig_entry_remote[1]
              /\ InstanceGroupExists

C34_Witness ==
    /\ mig_op = "network_migration"
    /\ mig_result = "HttpError"
    /\ mig_calls = <<"insert_template", "delete_group", "create_group">>
    /\ ~InstanceGroupExists

(* C35: over any sequence of network_migration() and rollback() steps the   *)
(* instance group is absent from the remote only while migration_status is  *)
(* ORIGINAL_GROUP_DELETED, and it exists whenever one of the two methods    *)
(* has returned normally.                                                   *)
C35_GroupAbsentOnlyAtCheckpoint3 ==
    /\ ~InstanceGroupExists
          => migration_status = MigrationStatus.ORIGINAL_GROUP_DELETED
    /\ mig_op \in {"network_migration", "rollback"} /\ mig_result = "returned"
          => InstanceGroupExists

\* rollback() returned normally and nothing was invoked since
RollbackReturned == mig_op = "rollback" /\ mig_result = "returned"

(* C36: no step of rollback() increases migration_status; a rollback() that *)
(* returned normally left the checkpoint at 0 or 1, and a rollback() entered *)
(* at checkpoint 0 or 1, as the one invoked right after it is, issues no    *)
(* mutating call and leaves the remote as it was.                           *)
C36_RollbackIsMonotoneAndIdempotent ==
    /\ [][mig_op = "rollback" /\ mig_op' = "rollback"
              => migration_status' <= migration_status]_vars
    /\ [](RollbackReturned => migration_status \in {0, 1})
    /\ [](mig_op = "rollback" /\ mig_entry_status \in {0, 1}
              => /\ mig_calls = <<>>
                 /\ <<remote_group, remote_templates>> = mig_entry_remote
                 /\ mig_result \in {"running", "returned"})
    /\ [][RollbackReturned /\ mig_op' = "rollback"
              => mig_entry_status' \in {0, 1}]_vars

C36_Witness ==
    /\ RollbackReturned
    /\ mig_entry_status = 0
    /\ mig_calls = <<>>
    /\ new_instance_template # {}
    /\ ~(new_instance_template \subseteq remote_templates)
    /\ InstanceGroupExists

-----------------------------------------------------------------------------
(* ForwardingRuleMigration: the handlers of a global forwarding rule.       *)

\* the handlers saved last are those of the rule's backend services, in order
HandlersOfThisInvocationBuilt ==
    /\ Len(backends_migration_handlers) >= Len(fr_backends)
    /\ \A i \in 1..Len(fr_backends) :
          backends_migration_handlers[
              Len(backends_migration_handlers) - Len(fr_backends) + i].backend
                  = fr_backends[i]

(* C37: migrate_a_global_forwarding_rule() has built the handler of every   *)
(* backend service of the rule before it runs the first handler; while it   *)
(* builds handlers it has run none and no step changes a backend service,   *)
(* so a failure to build a handler leaves every backend service as it was   *)
(* when the method was entered.                                             *)
C37_HandlersAreBuiltBeforeAnyMigration ==
    /\ [](GlobalRun /\ fr_pc = "global_build" => fr_calls = <<>>)
    /\ [](GlobalRun /\ fr_calls # <<>> => HandlersOfThisInvocationBuilt)
    /\ [](GlobalRun /\ Failed(fr_result) /\ ~HandlersOfThisInvocationBuilt
              => fr_calls = <<>>)
    /\ [][GlobalRun /\ fr_pc = "global_build"
              => <<bs_group, bs_templates, bs_migrations>>'
                    = <<bs_group, bs_templates, bs_migrations>>]_vars

C37_Witness ==
    /\ GlobalRun
    /\ fr_result = "HttpError"
    /\ fr_pc = "idle"
    /\ fr_next = 2
    /\ fr_calls = <<>>
    /\ fr_invocations = 2
    /\ bs_migrations[1] = 1
    /\ Len(backends_migration_handlers) = 3

\* how often the migration of a backend service was invoked by this run
MigrationsInvoked(b) ==
    Cardinality({k \in 1..Len(fr_calls) :
                    fr_calls[k] = <<"migrate_backend_service", b>>})

(* C38: an invocation of network_migration() on a global forwarding rule    *)
(* that returned has invoked the migration of each backend service of the   *)
(* rule exactly once, on the first invocation and on a later one.           *)
C38_EachBackendIsMigratedOnce ==
    GlobalMigrationReturned =>
        \A i \in 1..Len(fr_backends) : MigrationsInvoked(fr_backends[i]) = 1

(* C39: an internal regional forwarding rule is never lost: once            *)
(* network_migration() has returned, or has failed and rollback() has run,  *)
(* the rule exists on the remote with its original or its new configs.      *)
C39_InternalRuleIsNeverLost ==
    (/\ fr_kind = "InternalRegionalForwardingRule"
     /\ fr_pc = "idle"
     /\ \/ fr_op = "network_migration" /\ fr_result = "returned"
        \/ fr_op = "rollback")
        => fr_remote \in {{fr_original_configs}, {fr_new_configs}}

====
